---- MODULE Spec2Model ----
(***************************************************************************)
(* A model of the enhanced calculator: the operation registry, the input   *)
(* validator, the bounded history (HistoryManager), the memento stacks     *)
(* (CalculatorCaretaker) and the Calculator that composes them.            *)
(*                                                                         *)
(* Numbers are exact rationals [n, d] (d > 0, lowest terms) standing for   *)
(* the Python floats; names are sequences of characters so that strip()    *)
(* and lower() are computed, not assumed.                                  *)
(***************************************************************************)
EXTENDS Integers, Sequences, FiniteSets, TLC

(***************************************************************************)
(* Bounds of the model.                                                    *)
(***************************************************************************)
\* largest configured CALCULATOR_MAX_HISTORY_SIZE explored (1..MaxSize)
MaxSize == 2
\* number of calls of a session that change the calculator or a file
MaxCalls == 4
\* the same for a session of N calculate, k undo and j redo calls
MaxRunCalls == 6
\* number of steps of a session followed object by object
MaxRefSteps == 5
\* number of changing calls of a session that registers and removes observers
MaxObsCalls == 5
\* number of observers registered at one time
MaxObservers == 4
\* number of changing calls of a session that loads a file of any content
MaxLoadCalls == 3
\* number of rows of such a file
MaxRows == 2
\* number of calls of a session that calls the validator and the factory too
MaxValidCalls == 2
MaxOperand == 8
MaxRootBase == 2
MaxDegree == 3
MaxLoggerCalls == 5
MaxDrainCalls == 4
\* CALCULATOR_PRECISION of the modelled configuration (decimal digits)
Precision == 1
\* CALCULATOR_MAX_INPUT_VALUE of the modelled configuration
MaxInputValue == 3
\* the most digits after the point that repr writes
ReprDigits == 3

(***************************************************************************)
(* Exact arithmetic standing for float arithmetic.                         *)
(***************************************************************************)
Abs(x) == IF x < 0 THEN -x ELSE x

RECURSIVE Gcd(_, _)
Gcd(a, b) == IF b = 0 THEN a ELSE Gcd(b, a % b)

\* the rational n/d in lowest terms with a positive denominator (d # 0)
Rat(n, d) ==
    LET g == Gcd(Abs(n), Abs(d))
        s == IF d < 0 THEN -1 ELSE 1
    IN  [n |-> (s * n) \div g, d |-> (s * d) \div g]

Num(k) == [n |-> k, d |-> 1]

RAdd(x, y) == Rat(x.n * y.d + y.n * x.d, x.d * y.d)
RSub(x, y) == Rat(x.n * y.d - y.n * x.d, x.d * y.d)
RMul(x, y) == Rat(x.n * y.n, x.d * y.d)
RDiv(x, y) == Rat(x.n * y.d, x.d * y.n)
RAbs(x) == [n |-> Abs(x.n), d |-> x.d]
RNeg(x) == [n |-> -x.n, d |-> x.d]
RLess(x, y) == x.n * y.d < y.n * x.d
RIsZero(x) == x.n = 0
RIsInt(x) == x.d = 1
\* floor of a rational (\div rounds towards minus infinity for d > 0)
RFloor(x) == x.n \div x.d
\* a quotient rounded towards zero, as C's integer division
RTruncDiv(x, y) ==
    LET q == RDiv(x, y)
    IN  Num(IF q.n < 0 THEN 0 - ((0 - q.n) \div q.d) ELSE q.n \div q.d)

\* Python's float // and %: floored quotient, remainder with the divisor's sign
RFloorDiv(x, y) == Num(RFloor(RDiv(x, y)))
RMod(x, y) == RSub(x, RMul(y, RFloorDiv(x, y)))

RECURSIVE Pow10(_)
Pow10(k) == IF k = 0 THEN 1 ELSE 10 * Pow10(k - 1)

\* round(x, digits): nearest multiple of 10^-digits, ties to the even one
Round(x, digits) ==
    LET scaled == RMul(x, Num(Pow10(digits)))
        lo     == RFloor(scaled)
        twice  == RSub(RMul(scaled, Num(2)), Num(2 * lo))
        up     == \/ RLess(Num(1), twice)
                  \/ (twice = Num(1) /\ lo % 2 = 1)
    IN  Rat(IF up THEN lo + 1 ELSE lo, Pow10(digits))

\* x ** k for a natural k
RECURSIVE RPowNat(_, _)
RPowNat(x, k) == IF k = 0 THEN Num(1) ELSE RMul(x, RPowNat(x, k - 1))

(***************************************************************************)
(* Text: a name is a sequence of characters.                               *)
(***************************************************************************)
UpperCase == <<"A", "B", "C", "D", "E", "F", "G", "H", "I", "J", "K", "L", "M",
               "N", "O", "P", "Q", "R", "S", "T", "U", "V", "W", "X", "Y", "Z">>
LowerCase == <<"a", "b", "c", "d", "e", "f", "g", "h", "i", "j", "k", "l", "m",
               "n", "o", "p", "q", "r", "s", "t", "u", "v", "w", "x", "y", "z">>
Whitespace == {" ", "\t", "\n", "\r"}

ToLowerChar(c) ==
    IF \E i \in 1..Len(UpperCase) : UpperCase[i] = c
    THEN LowerCase[CHOOSE i \in 1..Len(UpperCase) : UpperCase[i] = c]
    ELSE c

ToUpperChar(c) ==
    IF \E i \in 1..Len(LowerCase) : LowerCase[i] = c
    THEN UpperCase[CHOOSE i \in 1..Len(LowerCase) : LowerCase[i] = c]
    ELSE c

\* str.upper()
Upper(s) == [i \in 1..Len(s) |-> ToUpperChar(s[i])]

\* str.lower()
Lower(s) == [i \in 1..Len(s) |-> ToLowerChar(s[i])]

RECURSIVE LStrip(_)
LStrip(s) == IF s # <<>> /\ Head(s) \in Whitespace THEN LStrip(Tail(s)) ELSE s

RECURSIVE RStrip(_)
RStrip(s) ==
    IF s # <<>> /\ s[Len(s)] \in Whitespace
    THEN RStrip(SubSeq(s, 1, Len(s) - 1))
    ELSE s

\* str.strip()
Strip(s) == RStrip(LStrip(s))

(***************************************************************************)
(* Outcomes: what a call returns, or the exception it raises.              *)
(***************************************************************************)
Ok(v) == [exc |-> "none", msg |-> "", val |-> v]
Raise(e, m) == [exc |-> e, msg |-> m, val |-> Num(0)]

(***************************************************************************)
(* Operations (operations.py).  An operation is named by its class.        *)
(***************************************************************************)
\* the largest r >= 0 with r^k <= m (m >= 0, k >= 1), searched below top
IRoot(m, k, top) ==
    CHOOSE r \in 0..top :
        /\ RPowNat(Num(r), k).n <= m
        /\ (r = top \/ RPowNat(Num(r + 1), k).n > m)

\* the decimal grid on which an irrational float result is approximated
Grid == Pow10(Precision + 1)

\* x ** (1/k) for x >= 0 and a natural k >= 1: exact when x is a perfect
\* k-th power, else the float's value cut to the grid
KthRoot(x, k) ==
    LET top == RFloor(x) + 1
        rn  == IRoot(x.n, k, x.n + 1)
        rd  == IRoot(x.d, k, x.d + 1)
    IN  IF RPowNat(Num(rn), k).n = x.n /\ RPowNat(Num(rd), k).n = x.d
        THEN Rat(rn, rd)
        ELSE Rat(IRoot((x.n * RPowNat(Num(Grid), k).n) \div x.d, k, top * Grid), Grid)

\* float ** float.  ZeroDivisionError for 0 to a negative power; a negative
\* base with a fractional exponent gives a complex number ("complex").
FloatPow(x, e) ==
    LET p == Abs(e.n)
        q == e.d
    IN  IF RLess(x, Num(0)) /\ q # 1 THEN Raise("complex", "")
        ELSE IF RIsZero(x) /\ e.n < 0
             THEN Raise("ZeroDivisionError", "0.0 cannot be raised to a negative power")
        ELSE LET base == IF q = 1 THEN RPowNat(x, p) ELSE KthRoot(RPowNat(x, p), q)
             IN  Ok(IF e.n < 0 THEN RDiv(Num(1), base) ELSE base)

AddExecute(a, b) == Ok(RAdd(a, b))
SubtractExecute(a, b) == Ok(RSub(a, b))
MultiplyExecute(a, b) == Ok(RMul(a, b))

DivideExecute(a, b) ==
    IF RIsZero(b) THEN Raise("OperationError", "Division by zero is not allowed")
    ELSE Ok(RDiv(a, b))

PowerExecute(a, b) ==
    LET result == FloatPow(a, b)
    IN  IF result.exc = "complex"
        THEN Raise("OperationError", "Cannot compute power")
        ELSE result

\* execute of RootOperation with line 88 moved above line 86: the degree is
\* compared with zero first
RootExecuteZeroFirst(a, b) ==
    IF RIsZero(b)
    THEN Raise("OperationError", "Root degree cannot be zero")
    ELSE IF RLess(a, Num(0)) /\ RIsZero(RMod(b, Num(2)))
    THEN Raise("OperationError", "Cannot compute even root of negative number")
    ELSE LET odd    == RLess(a, Num(0)) /\ RMod(b, Num(2)) = Num(1)
             r      == IF odd THEN FloatPow(RNeg(a), RDiv(Num(1), b))
                       ELSE FloatPow(a, RDiv(Num(1), b))
         IN  IF r.exc = "complex"
             THEN Raise("OperationError", "Cannot compute root")
             ELSE IF r.exc = "ZeroDivisionError"
             THEN Raise("OperationError", "Root operation failed")
             ELSE IF odd THEN Ok(RNeg(r.val)) ELSE r

RootExecute(a, b) ==
    IF RLess(a, Num(0)) /\ RIsZero(RMod(b, Num(2)))
    THEN Raise("OperationError", "Cannot compute even root of negative number")
    ELSE IF RIsZero(b)
    THEN Raise("OperationError", "Root degree cannot be zero")
    ELSE LET odd    == RLess(a, Num(0)) /\ RMod(b, Num(2)) = Num(1)
             r      == IF odd THEN FloatPow(RNeg(a), RDiv(Num(1), b))
                       ELSE FloatPow(a, RDiv(Num(1), b))
         IN  IF r.exc = "complex"
             THEN Raise("OperationError", "Cannot compute root")
             ELSE IF r.exc = "ZeroDivisionError"
             THEN Raise("OperationError", "Root operation failed")
             ELSE IF odd THEN Ok(RNeg(r.val)) ELSE r

ModulusExecute(a, b) ==
    IF RIsZero(b) THEN Raise("OperationError", "Modulus by zero is not allowed")
    ELSE Ok(RMod(a, b))

IntDivideExecute(a, b) ==
    IF RIsZero(b) THEN Raise("OperationError", "Integer division by zero is not allowed")
    ELSE Ok(RFloorDiv(a, b))

PercentExecute(a, b) ==
    IF RIsZero(b) THEN Raise("OperationError", "Percentage calculation: divisor cannot be zero")
    ELSE Ok(RMul(RDiv(a, b), Num(100)))

AbsDiffExecute(a, b) == Ok(RAbs(RSub(a, b)))

\* Operation.execute, dispatched on the class of the instance
Execute(cls, a, b) ==
    CASE cls = "AddOperation"       -> AddExecute(a, b)
      [] cls = "SubtractOperation"  -> SubtractExecute(a, b)
      [] cls = "MultiplyOperation"  -> MultiplyExecute(a, b)
      [] cls = "DivideOperation"    -> DivideExecute(a, b)
      [] cls = "PowerOperation"     -> PowerExecute(a, b)
      [] cls = "RootOperation"      -> RootExecute(a, b)
      [] cls = "ModulusOperation"   -> ModulusExecute(a, b)
      [] cls = "IntDivideOperation" -> IntDivideExecute(a, b)
      [] cls = "PercentOperation"   -> PercentExecute(a, b)
      [] cls = "AbsDiffOperation"   -> AbsDiffExecute(a, b)

\* Operation.get_symbol
GetSymbol(cls) ==
    CASE cls = "AddOperation"       -> <<"a", "d", "d">>
      [] cls = "SubtractOperation"  -> <<"s", "u", "b", "t", "r", "a", "c", "t">>
      [] cls = "MultiplyOperation"  -> <<"m", "u", "l", "t", "i", "p", "l", "y">>
      [] cls = "DivideOperation"    -> <<"d", "i", "v", "i", "d", "e">>
      [] cls = "PowerOperation"     -> <<"p", "o", "w", "e", "r">>
      [] cls = "RootOperation"      -> <<"r", "o", "o", "t">>
      [] cls = "ModulusOperation"   -> <<"m", "o", "d", "u", "l", "u", "s">>
      [] cls = "IntDivideOperation" -> <<"i", "n", "t", "_", "d", "i", "v", "i", "d", "e">>
      [] cls = "PercentOperation"   -> <<"p", "e", "r", "c", "e", "n", "t">>
      [] cls = "AbsDiffOperation"   -> <<"a", "b", "s", "_", "d", "i", "f", "f">>

\* the registry with an eleventh name, sqrt, bound to RootOperation
OperationsWithSqrt ==
    { <<<<"a", "d", "d">>, "AddOperation">>,
      <<<<"s", "u", "b", "t", "r", "a", "c", "t">>, "SubtractOperation">>,
      <<<<"m", "u", "l", "t", "i", "p", "l", "y">>, "MultiplyOperation">>,
      <<<<"d", "i", "v", "i", "d", "e">>, "DivideOperation">>,
      <<<<"p", "o", "w", "e", "r">>, "PowerOperation">>,
      <<<<"r", "o", "o", "t">>, "RootOperation">>,
      <<<<"s", "q", "r", "t">>, "RootOperation">>,
      <<<<"m", "o", "d", "u", "l", "u", "s">>, "ModulusOperation">>,
      <<<<"i", "n", "t", "_", "d", "i", "v", "i", "d", "e">>, "IntDivideOperation">>,
      <<<<"p", "e", "r", "c", "e", "n", "t">>, "PercentOperation">>,
      <<<<"a", "b", "s", "_", "d", "i", "f", "f">>, "AbsDiffOperation">> }

\* OperationFactory._operations: the registry, pairs <<name, class>>
Operations ==
    { <<<<"a", "d", "d">>, "AddOperation">>,
      <<<<"s", "u", "b", "t", "r", "a", "c", "t">>, "SubtractOperation">>,
      <<<<"m", "u", "l", "t", "i", "p", "l", "y">>, "MultiplyOperation">>,
      <<<<"d", "i", "v", "i", "d", "e">>, "DivideOperation">>,
      <<<<"p", "o", "w", "e", "r">>, "PowerOperation">>,
      <<<<"r", "o", "o", "t">>, "RootOperation">>,
      <<<<"m", "o", "d", "u", "l", "u", "s">>, "ModulusOperation">>,
      <<<<"i", "n", "t", "_", "d", "i", "v", "i", "d", "e">>, "IntDivideOperation">>,
      <<<<"p", "e", "r", "c", "e", "n", "t">>, "PercentOperation">>,
      <<<<"a", "b", "s", "_", "d", "i", "f", "f">>, "AbsDiffOperation">> }

\* OperationFactory.get_available_operations
GetAvailableOperations == { e[1] : e \in Operations }

\* OperationFactory.create
Create(operation_name) ==
    LET name == Lower(operation_name)
    IN  IF name \notin GetAvailableOperations
        THEN Raise("OperationError", "Unknown operation")
        ELSE [exc |-> "none", msg |-> "",
              val |-> (CHOOSE e \in Operations : e[1] = name)[2]]

(***************************************************************************)
(* Input validation (input_validators.py).  A Python value handed in as an *)
(* operand is [type, parses, num]: a float or int carries num; a str       *)
(* carries num when float() parses it; None carries nothing.  A value      *)
(* handed in as an operation name is [isStr, chars].                       *)
(***************************************************************************)
FloatValue(k) == [type |-> "float", parses |-> TRUE, num |-> Num(k)]
StrNumeral(k) == [type |-> "str", parses |-> TRUE, num |-> Num(k)]
StrWord == [type |-> "str", parses |-> FALSE, num |-> Num(0)]
NoneValue == [type |-> "NoneType", parses |-> FALSE, num |-> Num(0)]
StrName(chars) == [isStr |-> TRUE, chars |-> chars]
NotAStr == [isStr |-> FALSE, chars |-> <<>>]

\* validate_number with >= for > on line 25: the limit itself is rejected
ValidateNumberRejectsLimit(value) ==
    IF ~value.parses
    THEN Raise("ValidationError", "Invalid number")
    ELSE IF ~RLess(RAbs(value.num), Num(MaxInputValue))
    THEN Raise("ValidationError", "Number exceeds maximum allowed value")
    ELSE Ok(value.num)

\* InputValidator.validate_number
ValidateNumber(value) ==
    IF ~value.parses
    THEN Raise("ValidationError", "Invalid number")
    ELSE IF RLess(Num(MaxInputValue), RAbs(value.num))
    THEN Raise("ValidationError", "Number exceeds maximum allowed value")
    ELSE Ok(value.num)

\* validate_operation returning operation.strip() without .lower()
ValidateOperationKeepsCase(operation) ==
    IF ~operation.isStr \/ Strip(operation.chars) = <<>>
    THEN [exc |-> "ValidationError", msg |-> "Operation name cannot be empty", val |-> <<>>]
    ELSE [exc |-> "none", msg |-> "", val |-> Strip(operation.chars)]

\* InputValidator.validate_operation
ValidateOperation(operation) ==
    IF ~operation.isStr \/ Strip(operation.chars) = <<>>
    THEN [exc |-> "ValidationError", msg |-> "Operation name cannot be empty", val |-> <<>>]
    ELSE [exc |-> "none", msg |-> "", val |-> Lower(Strip(operation.chars))]

\* InputValidator.validate_operands: operand1 is validated first
ValidateOperands(operand1, operand2) ==
    LET v1 == ValidateNumber(operand1)
        v2 == ValidateNumber(operand2)
    IN  IF v1.exc # "none" THEN [exc |-> v1.exc, msg |-> v1.msg, val |-> <<>>]
        ELSE IF v2.exc # "none" THEN [exc |-> v2.exc, msg |-> v2.msg, val |-> <<>>]
        ELSE [exc |-> "none", msg |-> "", val |-> <<v1.val, v2.val>>]

(***************************************************************************)
(* Calculation records (calculation.py) and their rows in a CSV file.      *)
(* A timestamp is the tick of the clock at which the record was made.      *)
(* A cell of a file is text: a timestamp cell is "T" and the digits of the *)
(* tick, a number cell is the decimal digits that repr writes for a float. *)
(***************************************************************************)
Calculation(operation, operand1, operand2, result, timestamp) ==
    [operation |-> operation, operand1 |-> operand1, operand2 |-> operand2,
     result |-> result, timestamp |-> timestamp]

DigitChars == <<"0", "1", "2", "3", "4", "5", "6", "7", "8", "9">>
Digits == { DigitChars[i] : i \in 1..10 }
DigitValue == [c \in Digits |-> (CHOOSE i \in 1..10 : DigitChars[i] = c) - 1]

\* the decimal digits of a natural number
RECURSIVE DigitsOf(_)
DigitsOf(k) ==
    IF k < 10 THEN <<DigitChars[k + 1]>>
    ELSE DigitsOf(k \div 10) \o <<DigitChars[(k % 10) + 1]>>

\* reading an unsigned decimal text from position i on, with n the number
\* its digits made so far and k how many of them came after the point
\* (-1 before any point): whether it is digits with at most one point
RECURSIVE Scan(_, _, _, _)
Scan(text, i, n, k) ==
    IF i > Len(text) THEN [ok |-> TRUE, n |-> n, k |-> k]
    ELSE IF text[i] = "." THEN (IF k >= 0 THEN [ok |-> FALSE, n |-> 0, k |-> 0]
                                ELSE Scan(text, i + 1, n, 0))
    ELSE IF text[i] \in Digits
    THEN Scan(text, i + 1, 10 * n + DigitValue[text[i]], IF k < 0 THEN k ELSE k + 1)
    ELSE [ok |-> FALSE, n |-> 0, k |-> 0]

\* a decimal text with its sign taken off
Negative(text) == text # <<>> /\ Head(text) = "-"
Unsigned(text) == IF Negative(text) THEN Tail(text) ELSE text

\* an integer as text
IntText(k) == (IF k < 0 THEN <<"-">> ELSE <<>>) \o DigitsOf(Abs(k))

\* datetime.isoformat and datetime.fromisoformat
IsoFormat(t) == <<"T">> \o IntText(t)
FromIsoFormat(cell) ==
    IF cell = <<>> \/ Head(cell) # "T" THEN Raise("ValueError", "Invalid isoformat string")
    ELSE LET body == Unsigned(Tail(cell))
             read == Scan(body, 1, 0, -1)
         IN  IF read.ok /\ read.k < 0 /\ body # <<>>
             THEN Ok(IF Negative(Tail(cell)) THEN 0 - read.n ELSE read.n)
             ELSE Raise("ValueError", "Invalid isoformat string")

\* the digits after the point of the fraction r/d (0 <= r < d), at most
\* left of them, by long division
RECURSIVE FracDigits(_, _, _)
FracDigits(r, d, left) ==
    IF r = 0 \/ left = 0 THEN <<>>
    ELSE <<DigitChars[((10 * r) \div d) + 1]>> \o FracDigits((10 * r) % d, d, left - 1)

\* a float as DataFrame.to_csv writes it: repr, the shortest digits that
\* read back as the same float, with at least one after the point
FloatRepr(x) ==
    LET frac == FracDigits(Abs(x.n) % x.d, x.d, ReprDigits)
    IN  (IF x.n < 0 THEN <<"-">> ELSE <<>>)
          \o DigitsOf(Abs(x.n) \div x.d)
          \o <<".">> \o (IF frac = <<>> THEN <<"0">> ELSE frac)

\* float() of a cell read back: sign, digits, and digits after a point
FloatOf(cell) ==
    LET body  == Unsigned(cell)
        read  == Scan(body, 1, 0, -1)
        after == IF read.k < 0 THEN 0 ELSE read.k
        value == Rat(read.n, Pow10(after))
    IN  IF read.ok /\ Len(body) > (IF read.k < 0 THEN 0 ELSE 1)
        THEN Ok(IF Negative(cell) THEN RNeg(value) ELSE value)
        ELSE Raise("ValueError", "could not convert string to float")

\* to_dict writing the timestamp to the second: isoformat(timespec='seconds')
\* of a clock that ticks twice a second
ToDictToTheSecond(calc) ==
    [operation |-> calc.operation,
     operand1  |-> FloatRepr(calc.operand1),
     operand2  |-> FloatRepr(calc.operand2),
     result    |-> FloatRepr(calc.result),
     timestamp |-> IsoFormat(2 * (calc.timestamp \div 2))]

\* Calculation.to_dict
ToDict(calc) ==
    [operation |-> calc.operation,
     operand1  |-> FloatRepr(calc.operand1),
     operand2  |-> FloatRepr(calc.operand2),
     result    |-> FloatRepr(calc.result),
     timestamp |-> IsoFormat(calc.timestamp)]

\* Calculation.from_dict: the record, or the exception of the first field that fails
FromDict(data) ==
    LET ts == FromIsoFormat(data.timestamp)
        o1 == FloatOf(data.operand1)
        o2 == FloatOf(data.operand2)
        rs == FloatOf(data.result)
    IN  IF ts.exc # "none" THEN ts
        ELSE IF o1.exc # "none" THEN o1
        ELSE IF o2.exc # "none" THEN o2
        ELSE IF rs.exc # "none" THEN rs
        ELSE Ok(Calculation(data.operation, o1.val, o2.val, rs.val, ts.val))

(***************************************************************************)
(* Files.  A file is [exists, columns, rows]; a file of zero bytes has no  *)
(* columns.                                                                *)
(***************************************************************************)
RequiredColumns == {"operation", "operand1", "operand2", "result", "timestamp"}

NoFile == [exists |-> FALSE, columns |-> {}, rows |-> <<>>]

\* config['CALCULATOR_HISTORY_FILE'] as the configuration sets it
HistoryFile == "history/calculator_history.csv"
\* a file of another session, longer than any capacity explored, with one
\* row whose operand is not a number
ForeignFile == "foreign.csv"
\* a file without the timestamp column
MalformedFile == "malformed.csv"
\* a file of zero bytes
EmptyFile == "empty.csv"
\* a path where no file exists
MissingFile == "nonexistent/path.csv"
\* a path that cannot be written (its directory cannot be made); a
\* configuration may name it as its history file
UnwritableFile == "/proc/denied/history.csv"

Paths == {HistoryFile, ForeignFile, MalformedFile, EmptyFile, MissingFile, UnwritableFile}

Writable(path) == path # UnwritableFile

Add == <<"a", "d", "d">>

\* row k of the foreign file: a record of an earlier session (timestamp -k)
ForeignRow(k) ==
    [operation |-> Add,
     operand1  |-> FloatRepr(Num(k)),
     operand2  |-> IF k = 2 THEN <<"t", "w", "o">> ELSE FloatRepr(Num(k)),
     result    |-> FloatRepr(Num(2 * k)),
     timestamp |-> IsoFormat(0 - k)]

ForeignRows == [k \in 1..(MaxSize + 2) |-> ForeignRow(k)]

InitialFiles ==
    [p \in Paths |->
        CASE p = ForeignFile   -> [exists |-> TRUE, columns |-> RequiredColumns, rows |-> ForeignRows]
          [] p = MalformedFile -> [exists |-> TRUE, columns |-> {"invalid", "data"}, rows |-> <<>>]
          [] p = EmptyFile     -> [exists |-> TRUE, columns |-> {}, rows |-> <<>>]
          [] OTHER             -> NoFile]

(***************************************************************************)
(* HistoryManager (history.py).                                            *)
(***************************************************************************)
Last(s) == s[Len(s)]
Front(s) == SubSeq(s, 1, Len(s) - 1)

\* variants of HistoryManager.add: one drops the newest record when the list
\* is over capacity, one already drops the oldest when the list reaches capacity
HistoryAddDropsNewest(history, calculation, max_size) ==
    LET appended == Append(history, calculation)
    IN  IF Len(appended) > max_size THEN Front(appended) ELSE appended

HistoryAddEvictsAtCapacity(history, calculation, max_size) ==
    LET appended == Append(history, calculation)
    IN  IF Len(appended) >= max_size THEN Tail(appended) ELSE appended

\* HistoryManager.add
HistoryAdd(history, calculation, max_size) ==
    LET appended == Append(history, calculation)
    IN  IF Len(appended) > max_size THEN Tail(appended) ELSE appended

\* HistoryManager.clear
HistoryClear(history) == <<>>

\* HistoryManager.get_all: a new list of the same records
GetAll(history) == [i \in 1..Len(history) |-> history[i]]

\* save_to_csv writing with mode='a': the rows are added to those of the file
SaveToCsvAppends(history, files, file_path) ==
    IF ~Writable(file_path)
    THEN [exc |-> "HistoryError", msg |-> "Failed to save history to CSV", val |-> file_path,
          files |-> files]
    ELSE [exc |-> "none", msg |-> "", val |-> file_path,
          files |-> [files EXCEPT ![file_path] =
                        [exists  |-> TRUE,
                         columns |-> RequiredColumns,
                         rows    |-> @.rows \o [i \in 1..Len(history) |-> ToDict(history[i])]]]]

\* HistoryManager.save_to_csv: the outcome and the files afterwards
SaveToCsv(history, files, file_path) ==
    IF ~Writable(file_path)
    THEN [exc |-> "HistoryError", msg |-> "Failed to save history to CSV", val |-> file_path,
          files |-> files]
    ELSE [exc |-> "none", msg |-> "", val |-> file_path,
          files |-> [files EXCEPT ![file_path] =
                        [exists  |-> TRUE,
                         columns |-> RequiredColumns,
                         rows    |-> [i \in 1..Len(history) |-> ToDict(history[i])]]]]

\* the loop of lines 81-88 without its try: the first row that from_dict
\* rejects ends it, and the rows before it are kept
RECURSIVE ParseRowsUntilBad(_)
ParseRowsUntilBad(rows) ==
    IF rows = <<>> THEN <<>>
    ELSE LET calc == FromDict(Head(rows))
         IN  IF calc.exc = "none" THEN <<calc.val>> \o ParseRowsUntilBad(Tail(rows))
             ELSE <<>>

\* the rows of a file that from_dict accepts, in file order
RECURSIVE ParseRows(_)
ParseRows(rows) ==
    IF rows = <<>> THEN <<>>
    ELSE LET calc == FromDict(Head(rows))
         IN  IF calc.exc = "none" THEN <<calc.val>> \o ParseRows(Tail(rows))
             ELSE ParseRows(Tail(rows))

\* load_from_csv emptying self.history before it reads the file
LoadFromCsvClearsFirst(history, files, file_path) ==
    LET file == files[file_path]
    IN  IF ~file.exists
        THEN [exc |-> "none", msg |-> "", val |-> <<>>, history |-> <<>>]
        ELSE IF file.columns = {}
        THEN [exc |-> "none", msg |-> "", val |-> <<>>, history |-> <<>>]
        ELSE IF ~(RequiredColumns \subseteq file.columns)
        THEN [exc |-> "HistoryError", msg |-> "Failed to load history from CSV",
              val |-> <<>>, history |-> <<>>]
        ELSE LET calculations == ParseRows(file.rows)
             IN  [exc |-> "none", msg |-> "", val |-> calculations, history |-> calculations]

\* load_from_csv without the test of lines 76-78: from_dict raises KeyError
\* on every row, every row is skipped, and the history becomes empty
LoadFromCsvWithoutColumns(history, files, file_path) ==
    LET file == files[file_path]
    IN  IF ~file.exists
        THEN [exc |-> "none", msg |-> "", val |-> <<>>, history |-> history]
        ELSE IF file.columns = {}
        THEN [exc |-> "none", msg |-> "", val |-> <<>>, history |-> history]
        ELSE IF ~(RequiredColumns \subseteq file.columns)
        THEN [exc |-> "none", msg |-> "", val |-> <<>>, history |-> <<>>]
        ELSE LET calculations == ParseRows(file.rows)
             IN  [exc |-> "none", msg |-> "", val |-> calculations, history |-> calculations]

\* load_from_csv without the test of lines 68-69: read_csv raises
\* FileNotFoundError, which line 94 turns into HistoryError
LoadFromCsvWithoutExists(history, files, file_path) ==
    LET file == files[file_path]
    IN  IF ~file.exists
        THEN [exc |-> "HistoryError", msg |-> "Failed to load history from CSV",
              val |-> <<>>, history |-> history]
        ELSE IF file.columns = {}
        THEN [exc |-> "none", msg |-> "", val |-> <<>>, history |-> history]
        ELSE IF ~(RequiredColumns \subseteq file.columns)
        THEN [exc |-> "HistoryError", msg |-> "Failed to load history from CSV",
              val |-> <<>>, history |-> history]
        ELSE LET calculations == ParseRows(file.rows)
             IN  [exc |-> "none", msg |-> "", val |-> calculations, history |-> calculations]

\* HistoryManager.load_from_csv: the outcome and the history afterwards
LoadFromCsv(history, files, file_path) ==
    LET file == files[file_path]
    IN  IF ~file.exists
        THEN [exc |-> "none", msg |-> "", val |-> <<>>, history |-> history]
        ELSE IF file.columns = {}
        THEN [exc |-> "none", msg |-> "", val |-> <<>>, history |-> history]
        ELSE IF ~(RequiredColumns \subseteq file.columns)
        THEN [exc |-> "HistoryError", msg |-> "Failed to load history from CSV",
              val |-> <<>>, history |-> history]
        ELSE LET calculations == ParseRows(file.rows)
             IN  [exc |-> "none", msg |-> "", val |-> calculations, history |-> calculations]

(***************************************************************************)
(* CalculatorMemento and CalculatorCaretaker (calculator_memento.py).      *)
(***************************************************************************)
\* copy.deepcopy of a list of records: new records with the same fields
DeepCopy(history) ==
    [i \in 1..Len(history) |-> [f \in DOMAIN history[i] |-> history[i][f]]]

\* CalculatorMemento.__init__ and CalculatorMemento.get_history
Memento(history) == [_history |-> DeepCopy(history)]
MementoGetHistory(memento) == DeepCopy(memento._history)

\* a save_state that leaves the redo stack alone
SaveStateKeepsRedo(undo, redo, history) ==
    [undo |-> Append(undo, Memento(history)), redo |-> redo]

\* save_state keeping no more snapshots than the largest capacity
SaveStateWithinCapacity(undo, redo, history) ==
    [undo |-> IF Len(undo) >= MaxSize
              THEN Append(Tail(undo), Memento(history))
              ELSE Append(undo, Memento(history)),
     redo |-> <<>>]

\* CalculatorCaretaker.save_state
SaveState(undo, redo, history) ==
    [undo |-> Append(undo, Memento(history)), redo |-> <<>>]

\* variants of CalculatorCaretaker.undo: one pushes the state it restores, not
\* the state it leaves, onto the redo stack; one reads the top snapshot
\* without popping it
CaretakerUndoSavesRestored(undo, redo, current_history) ==
    IF undo = <<>>
    THEN [undo |-> undo, redo |-> redo, history |-> current_history]
    ELSE [undo    |-> Front(undo),
          redo    |-> Append(redo, Memento(MementoGetHistory(Last(undo)))),
          history |-> MementoGetHistory(Last(undo))]

CaretakerUndoPeeks(undo, redo, current_history) ==
    IF undo = <<>>
    THEN [undo |-> undo, redo |-> redo, history |-> current_history]
    ELSE [undo    |-> undo,
          redo    |-> Append(redo, Memento(current_history)),
          history |-> MementoGetHistory(Last(undo))]

\* an undo that takes two snapshots off the stack when it has two
CaretakerUndoPopsTwo(undo, redo, current_history) ==
    IF undo = <<>>
    THEN [undo |-> undo, redo |-> redo, history |-> current_history]
    ELSE [undo    |-> IF Len(undo) > 1 THEN Front(Front(undo)) ELSE Front(undo),
          redo    |-> Append(redo, Memento(current_history)),
          history |-> MementoGetHistory(Last(undo))]

\* CalculatorCaretaker.undo
CaretakerUndo(undo, redo, current_history) ==
    IF undo = <<>>
    THEN [undo |-> undo, redo |-> redo, history |-> current_history]
    ELSE [undo    |-> Front(undo),
          redo    |-> Append(redo, Memento(current_history)),
          history |-> MementoGetHistory(Last(undo))]

\* a redo that takes the oldest undone state, not the most recent one
CaretakerRedoOldestFirst(undo, redo, current_history) ==
    IF redo = <<>>
    THEN [undo |-> undo, redo |-> redo, history |-> current_history]
    ELSE [undo    |-> Append(undo, Memento(current_history)),
          redo    |-> Tail(redo),
          history |-> MementoGetHistory(Head(redo))]

\* a redo that reads the top of the redo stack without popping it
CaretakerRedoPeeks(undo, redo, current_history) ==
    IF redo = <<>>
    THEN [undo |-> undo, redo |-> redo, history |-> current_history]
    ELSE [undo    |-> Append(undo, Memento(current_history)),
          redo    |-> redo,
          history |-> MementoGetHistory(Last(redo))]

\* CalculatorCaretaker.redo
CaretakerRedo(undo, redo, current_history) ==
    IF redo = <<>>
    THEN [undo |-> undo, redo |-> redo, history |-> current_history]
    ELSE [undo    |-> Append(undo, Memento(current_history)),
          redo    |-> Front(redo),
          history |-> MementoGetHistory(Last(redo))]

CanUndo(undo) == Len(undo) > 0
CanRedo(redo) == Len(redo) > 0

(***************************************************************************)
(* Calculator (calculator.py).                                             *)
(***************************************************************************)
VARIABLES
    config,        \* the CalculatorConfig values the calculator reads
    history,       \* HistoryManager.history, oldest first
    undo_stack,    \* CalculatorCaretaker._undo_stack, most recent last
    redo_stack,    \* CalculatorCaretaker._redo_stack, most recent last
    observers,     \* Calculator.observers, in registration order
    files,         \* the file system: path -> file
    clock,         \* datetime.now(), in ticks
    left,          \* how many more calls may change the calculator or a file
    lastOp,        \* the public operation called last
    ret,           \* what it returned (val) or the class of what it raised (exc)
    notified,      \* the calls of update it made, in order
    pre,           \* history, stacks, files and observers when it was called,
                   \* and the path written if the call before it was a save
    registry,      \* the register_observer and remove_observer calls so far
    run            \* the session so far, while it is N calculate, k undo, j redo

\* The same calculator as objects: a record and a list are objects with an
\* identity, and a variable or a list element is a reference to one.
VARIABLES
    objects,        \* the Calculation objects made so far: id -> fields
    lists,          \* the list objects made so far: id -> ids of its elements
    live,           \* the list that HistoryManager.history refers to
    undo_mementos,  \* the _history list of each memento of the undo stack
    redo_mementos,  \* the _history list of each memento of the redo stack
    held,           \* the lists the caller was returned, and by which call
    stored,         \* the fields a memento's records had when it was made
    step            \* the step taken last, and on a list returned by which call

refs == <<objects, lists, live, undo_mementos, redo_mementos, held, stored, step>>

\* What stands beside a calculator: a function of the validator or of the
\* operations called on its own, the process-wide logger, and the calls of
\* the calculator that have not returned yet.
VARIABLES
    probe,          \* the function called last on its own, with what and the outcome
    logger,         \* CalculatorLogger._logger and logging.getLogger('calculator')
    frames          \* the calls in progress: where each one is, and its locals

aside == <<probe, logger, frames>>

vars == <<config, history, undo_stack, redo_stack, observers, files, clock,
          left, lastOp, ret, notified, pre, registry, run, refs, aside>>

\* HistoryManager.max_size, set from the configuration by Calculator.__init__
max_size == config.CALCULATOR_MAX_HISTORY_SIZE

\* Calculator.calculate, lines 118-135: validation, lookup, execution and
\* rounding; what is raised, or the locals operation, operand1, operand2 and
\* result (val) that the rest of calculate uses
\* lines 118-135 with line 123 moved above line 120: the operation is
\* created before the operands are validated
CalcOutcomeCreateFirst(operation, operand1, operand2) ==
    LET name     == ValidateOperation(operation)
        operands == ValidateOperands(operand1, operand2)
        op       == Create(name.val)
        result   == Execute(op.val, operands.val[1], operands.val[2])
    IN  IF name.exc # "none" THEN Raise(name.exc, name.msg)
        ELSE IF op.exc # "none" THEN Raise(op.exc, op.msg)
        ELSE IF operands.exc # "none" THEN Raise(operands.exc, operands.msg)
        ELSE IF result.exc = "OperationError" THEN result
        ELSE IF result.exc # "none" THEN Raise("OperationError", "Operation failed")
        ELSE [exc |-> "none", msg |-> "", val |-> Round(result.val, Precision),
              operation |-> name.val, operand1 |-> operands.val[1],
              operand2 |-> operands.val[2]]

CalcOutcome(operation, operand1, operand2) ==
    LET name     == ValidateOperation(operation)
        operands == ValidateOperands(operand1, operand2)
        op       == Create(name.val)
        result   == Execute(op.val, operands.val[1], operands.val[2])
    IN  IF name.exc # "none" THEN Raise(name.exc, name.msg)
        ELSE IF operands.exc # "none" THEN Raise(operands.exc, operands.msg)
        ELSE IF op.exc # "none" THEN Raise(op.exc, op.msg)
        ELSE IF result.exc = "OperationError" THEN result
        ELSE IF result.exc # "none" THEN Raise("OperationError", "Operation failed")
        ELSE [exc |-> "none", msg |-> "", val |-> Round(result.val, Precision),
              operation |-> name.val, operand1 |-> operands.val[1],
              operand2 |-> operands.val[2]]

\* a calculate that appends before it takes the snapshot
AddAndSave(undo, redo, current, calculation, capacity) ==
    LET added == HistoryAdd(current, calculation, capacity)
        saved == SaveState(undo, redo, GetAll(added))
    IN  [undo |-> saved.undo, redo |-> saved.redo, history |-> added]

\* Calculator.calculate, lines 145-149: the snapshot, then the append
SaveAndAdd(undo, redo, current, calculation, capacity) ==
    LET saved == SaveState(undo, redo, GetAll(current))
    IN  [undo |-> saved.undo, redo |-> saved.redo,
         history |-> HistoryAdd(current, calculation, capacity)]

\* a clear_history that clears before it takes the snapshot
ClearAndSave(undo, redo, current) ==
    LET saved == SaveState(undo, redo, GetAll(HistoryClear(current)))
    IN  [undo |-> saved.undo, redo |-> saved.redo, history |-> HistoryClear(current)]

\* a clear_history that takes no snapshot of a history that is empty
SaveAndClearWhatThereIs(undo, redo, current) ==
    IF current = <<>>
    THEN [undo |-> undo, redo |-> redo, history |-> current]
    ELSE LET saved == SaveState(undo, redo, GetAll(current))
         IN  [undo |-> saved.undo, redo |-> saved.redo, history |-> HistoryClear(current)]

\* Calculator.clear_history, lines 162-163: the snapshot, then the clear
SaveAndClear(undo, redo, current) ==
    LET saved == SaveState(undo, redo, GetAll(current))
    IN  [undo |-> saved.undo, redo |-> saved.redo, history |-> HistoryClear(current)]

\* Observers are objects: the two the calculator makes itself, and two a
\* caller may register, one whose update raises and one whose update returns
FailingObserver == "FailingObserver"
QuietObserver == "QuietObserver"

\* the observers a caller registers, and all the observers of a session
CallerObservers == {FailingObserver, QuietObserver}
AllObservers == {"LoggingObserver", "AutoSaveObserver"} \cup CallerObservers

\* an observer of the caller whose update calls register_observer or
\* remove_observer of the calculator that notifies it
MeddlingObserver == "MeddlingObserver"
RoundObservers == AllObservers \cup {MeddlingObserver}

\* Observer.update of each observer class, called with the record while the
\* calculator is as in visible: what leaves update, and the files afterwards.
\* AutoSaveObserver.update catches what save_to_csv raises.
ObserverUpdate(observer, calculation, visible, fs) ==
    CASE observer = "AutoSaveObserver" ->
           [exc   |-> "none",
            files |-> SaveToCsv(visible.history, fs, config.CALCULATOR_HISTORY_FILE).files]
      [] observer = "LoggingObserver" -> [exc |-> "none", files |-> fs]
      [] observer = FailingObserver   -> [exc |-> "Exception", files |-> fs]
      [] OTHER                        -> [exc |-> "none", files |-> fs]

\* what one call of update is recorded as
Notification(observer, calculation, visible) ==
    [observer |-> observer, calculation |-> calculation,
     history |-> visible.history, undo_stack |-> visible.undo_stack]

\* a notification round without the try of line 105: the first exception
\* ends the round and leaves _notify_observers
RECURSIVE NotifyObserversUnguarded(_, _, _, _)
NotifyObserversUnguarded(obs, calculation, visible, fs) ==
    IF obs = <<>> THEN [exc |-> "none", files |-> fs, notified |-> <<>>]
    ELSE LET first == ObserverUpdate(Head(obs), calculation, visible, fs)
             rest  == NotifyObserversUnguarded(Tail(obs), calculation, visible, first.files)
             entry == Notification(Head(obs), calculation, visible)
         IN  IF first.exc # "none"
             THEN [exc |-> first.exc, files |-> first.files, notified |-> <<entry>>]
             ELSE [exc |-> rest.exc, files |-> rest.files,
                   notified |-> <<entry>> \o rest.notified]

\* Calculator._notify_observers: every observer in registration order; an
\* exception that leaves update is caught and the round goes on
RECURSIVE NotifyObservers(_, _, _, _)
NotifyObservers(obs, calculation, visible, fs) ==
    IF obs = <<>> THEN [exc |-> "none", files |-> fs, notified |-> <<>>]
    ELSE LET first == ObserverUpdate(Head(obs), calculation, visible, fs)
             rest  == NotifyObservers(Tail(obs), calculation, visible, first.files)
         IN  [exc |-> "none", files |-> rest.files,
              notified |-> <<Notification(Head(obs), calculation, visible)>> \o rest.notified]

\* Calculator._register_default_observers
DefaultObservers(cfg) ==
    IF cfg.CALCULATOR_AUTO_SAVE
    THEN <<"LoggingObserver", "AutoSaveObserver">>
    ELSE <<"LoggingObserver">>

(***************************************************************************)
(* The calls a session makes.                                              *)
(***************************************************************************)
Divide == <<"d", "i", "v", "i", "d", "e">>

CalcInputs ==
    { <<StrName(Add), FloatValue(1), FloatValue(2)>>,
      <<StrName(<<" ", "D", "i", "v", "i", "d", "e", "\n">>), StrNumeral(3), FloatValue(2)>>,
      <<StrName(Divide), FloatValue(1), FloatValue(0)>>,
      <<StrName(<<"m", "o", "d", "u", "l", "u", "s">>), FloatValue(1), FloatValue(0)>>,
      <<StrName(<<"i", "n", "t", "_", "d", "i", "v", "i", "d", "e">>), FloatValue(1), FloatValue(0)>>,
      <<StrName(<<"P", "e", "r", "c", "e", "n", "t">>), FloatValue(1), StrNumeral(0)>>,
      <<StrName(<<"s", "q", "r", "t">>), FloatValue(1), FloatValue(1)>>,
      <<StrName(<<" ", "\t">>), FloatValue(1), FloatValue(1)>>,
      <<NotAStr, FloatValue(1), FloatValue(1)>>,
      <<StrName(Add), StrWord, FloatValue(1)>>,
      <<StrName(Add), FloatValue(1), NoneValue>>,
      <<StrName(Add), FloatValue(MaxInputValue + 1), FloatValue(1)>> }

\* a str operand, by its characters: float() strips it and parses it
StrText(chars) ==
    LET parsed == FloatOf(Strip(chars))
    IN  [type |-> "str", parses |-> parsed.exc = "none", num |-> parsed.val]

\* a float operand that is half of the odd number k
HalfValue(k) == [type |-> "float", parses |-> TRUE, num |-> Rat(k, 2)]

\* the names given to calculate, validate_operation and create on their own:
\* each name of the registry as it is, in capitals, capitalised, and between
\* white space; names of no operation; blank names; a value that is no str
Variants(name) ==
    { name, Upper(name), <<ToUpperChar(Head(name))>> \o Tail(name),
      <<" ">> \o Upper(name) \o <<"\n">> }

Sqrt == <<"s", "q", "r", "t">>

NameTexts ==
    UNION { Variants(name) : name \in GetAvailableOperations }
        \cup Variants(Sqrt) \cup {<<>>, <<" ", "\t">>, <<"a", "d", " ", "d">>}

NameInputs == { StrName(chars) : chars \in NameTexts } \cup {NotAStr}

\* the operands given to validate_number on its own: on, next to and beyond
\* the largest value allowed, and values that are no numbers
NumberInputs ==
    { FloatValue(k) : k \in {0 - (MaxInputValue + 1), 0 - MaxInputValue, 0,
                              MaxInputValue, MaxInputValue + 1} }
        \cup { HalfValue(2 * MaxInputValue + 1), HalfValue(0 - (2 * MaxInputValue + 1)),
               StrNumeral(MaxInputValue),
               StrText(<<" ", "2", ".", "5", " ">>), StrText(<<"-", "0", ".", "5">>),
               StrText(<<"a", "b", "c">>), StrText(<<>>), StrWord, NoneValue }

\* pairs of operands given to calculate with each of the names
OperandPairs ==
    { <<FloatValue(2), FloatValue(1)>>,
      <<FloatValue(1), FloatValue(0)>>,
      <<FloatValue(MaxInputValue), StrNumeral(1)>>,
      <<StrWord, FloatValue(1)>>,
      <<FloatValue(1), NoneValue>>,
      <<FloatValue(MaxInputValue + 1), FloatValue(1)>>,
      <<FloatValue(1), HalfValue(0 - (2 * MaxInputValue + 1))>> }

NamedInputs == { <<name, pair[1], pair[2]>> : name \in NameInputs, pair \in OperandPairs }

SavePaths == {"None", UnwritableFile}
LoadPaths == {"None", ForeignFile, MalformedFile, EmptyFile, MissingFile}

\* the outcome of each calculate call of a session, computed once
Outcomes == [in \in CalcInputs \cup NamedInputs |-> CalcOutcome(in[1], in[2], in[3])]

NoRun == [phase |-> "other", made |-> <<>>, trail |-> <<>>, undos |-> 0, redos |-> 0]

\* what every public operation records about itself
Returned(op, r, n, reg) ==
    /\ lastOp' = op
    /\ ret' = [exc |-> r.exc, val |-> r.val]
    /\ notified' = n
    /\ pre' = [history |-> history, undo_stack |-> undo_stack,
               redo_stack |-> redo_stack, files |-> files, observers |-> observers,
               saved |-> IF lastOp = "save_history" /\ ret.exc = "none"
                         THEN ret.val ELSE "none"]
    /\ registry' = reg
    /\ UNCHANGED <<refs, logger, frames>>

CalledWith(op, r, n, reg) == Returned(op, r, n, reg) /\ UNCHANGED probe

Called(op, r, n) == CalledWith(op, r, n, registry)

\* how many elements of seq are x
Times(x, seq) == Cardinality({ i \in 1..Len(seq) : seq[i] = x })

\* a call that changes the calculator or a file uses up one of the calls left
Changes == left > 0 /\ left' = left - 1

\* no function has been called on its own
NoProbe == [fn |-> "none", args |-> <<>>, out |-> Ok(Num(0))]

\* the logger when the process starts: none stored, no handler attached to
\* logging.getLogger('calculator'); calls are the calls made so far, exc
\* and val what the last one raised or returned
NoLogger == [stored |-> FALSE, handlers |-> {}, calls |-> <<>>, exc |-> "none", val |-> "None"]

\* CalculatorLogger.setup
Setup(lg) ==
    IF lg.stored
    THEN [lg EXCEPT !.exc = "none", !.val = "logger"]
    ELSE IF lg.handlers # {}
    THEN [lg EXCEPT !.exc = "none", !.val = "logger"]
    ELSE [lg EXCEPT !.stored = TRUE, !.handlers = {"FileHandler", "StreamHandler"},
                    !.exc = "none", !.val = "logger"]

\* CalculatorLogger.get_logger
GetLogger(lg) ==
    IF ~lg.stored
    THEN [lg EXCEPT !.exc = "RuntimeError", !.val = "None"]
    ELSE [lg EXCEPT !.exc = "none", !.val = "logger"]

\* a Calculator as __init__ leaves it, with fs the files of the environment
\* and lg the logger
FreshAs(calls, fs, lg) ==
    /\ config \in [CALCULATOR_MAX_HISTORY_SIZE : 1..MaxSize,
                    CALCULATOR_AUTO_SAVE : BOOLEAN,
                    CALCULATOR_HISTORY_FILE : {HistoryFile, UnwritableFile}]
    /\ history = <<>>
    /\ undo_stack = <<>>
    /\ redo_stack = <<>>
    /\ observers = DefaultObservers(config)
    /\ files = fs
    /\ clock = 0
    /\ left = calls
    /\ lastOp = "__init__"
    /\ ret = [exc |-> "none", val |-> Num(0)]
    /\ notified = <<>>
    /\ pre = [history |-> <<>>, undo_stack |-> <<>>, redo_stack |-> <<>>,
              files |-> fs, observers |-> observers, saved |-> "none"]
    /\ registry = [times   |-> [o \in RoundObservers |-> Times(o, observers)],
                   removed |-> {}]
    /\ run = [phase |-> "calc", made |-> <<>>, trail |-> <<(<<>>)>>, undos |-> 0, redos |-> 0]
    /\ objects = <<>>
    /\ lists = <<(<<>>)>>
    /\ live = 1
    /\ undo_mementos = <<>>
    /\ redo_mementos = <<>>
    /\ held = {}
    /\ stored = <<(<<>>)>>
    /\ step = [op |-> "__init__", from |-> "none"]
    /\ probe = NoProbe
    /\ logger = lg
    /\ frames = <<>>

\* a Calculator as __init__ leaves it in a new process: line 79 has set the
\* logger up
FreshWith(calls, fs) == FreshAs(calls, fs, Setup(NoLogger))

\* a Calculator as __init__ leaves it, with the files of the environment
Fresh(calls) == FreshWith(calls, InitialFiles)

\* the sessions whose history file can be written
Init == Fresh(MaxCalls) /\ Writable(config.CALCULATOR_HISTORY_FILE)

\* a calculate that has taken its snapshot by the time validation or
\* execution raises
RaiseAfterSaveState(out) ==
    LET saved == SaveState(undo_stack, redo_stack, GetAll(history))
    IN  /\ undo_stack' = saved.undo
        /\ redo_stack' = saved.redo
        /\ Returned("calculate", out, <<>>, registry)
        /\ run' = NoRun
        /\ UNCHANGED <<config, history, observers, files, clock, left>>

\* Calculator.calculate where lines 118-135 raise: the exception leaves it
RaiseFromCalculate(out) ==
    /\ Returned("calculate", out, <<>>, registry)
    /\ run' = NoRun
    /\ UNCHANGED <<config, history, undo_stack, redo_stack, observers, files, clock, left>>

\* calculate with line 152 moved above line 146: the observers are notified
\* before the snapshot is pushed and the record appended
NotifyAndRecord(out) ==
    LET calculation == Calculation(out.operation, out.operand1, out.operand2,
                                   out.val, clock)
        done        == SaveAndAdd(undo_stack, redo_stack, history, calculation, max_size)
        round       == NotifyObservers(observers, calculation,
                                       [history |-> history, undo_stack |-> undo_stack],
                                       files)
    IN  /\ Changes
        /\ clock' = clock + 1
        /\ undo_stack' = done.undo
        /\ redo_stack' = done.redo
        /\ history' = done.history
        /\ files' = round.files
        /\ Returned("calculate", out, round.notified, registry)
        /\ run' = NoRun
        /\ UNCHANGED <<config, observers>>

\* Calculator.calculate from line 137 on: record, snapshot, append, notify
RecordCalculation(out) ==
    LET calculation == Calculation(out.operation, out.operand1, out.operand2,
                                   out.val, clock)
        done        == SaveAndAdd(undo_stack, redo_stack, history, calculation, max_size)
        round       == NotifyObservers(observers, calculation,
                                       [history |-> done.history, undo_stack |-> done.undo],
                                       files)
    IN  /\ Changes
        /\ clock' = clock + 1
        /\ undo_stack' = done.undo
        /\ redo_stack' = done.redo
        /\ history' = done.history
        /\ files' = round.files
        /\ Returned("calculate", IF round.exc = "none" THEN out ELSE Raise(round.exc, ""),
                    round.notified, registry)
        /\ run' = IF run.phase = "calc"
                  THEN [run EXCEPT !.made = Append(@, calculation),
                                   !.trail = Append(@, done.history)]
                  ELSE NoRun
        /\ UNCHANGED <<config, observers>>

\* Calculator.calculate, given what lines 118-135 raised or computed
Respond(out) ==
    IF out.exc # "none" THEN RaiseFromCalculate(out) ELSE RecordCalculation(out)

\* Calculator.calculate
Calculate(operation, operand1, operand2) ==
    Respond(Outcomes[<<operation, operand1, operand2>>]) /\ UNCHANGED probe

\* clear_history ending with a notification round: the auto-save observer,
\* when registered, writes the cleared history
ClearHistoryNotifies ==
    LET done == SaveAndClear(undo_stack, redo_stack, history)
    IN  /\ Changes
        /\ undo_stack' = done.undo
        /\ redo_stack' = done.redo
        /\ history' = done.history
        /\ files' = IF \E i \in 1..Len(observers) : observers[i] = "AutoSaveObserver"
                    THEN SaveToCsv(done.history, files, config.CALCULATOR_HISTORY_FILE).files
                    ELSE files
        /\ Called("clear_history", Ok(Num(0)), <<>>)
        /\ run' = NoRun
        /\ UNCHANGED <<config, observers, clock>>

\* Calculator.clear_history
ClearHistory ==
    LET done == SaveAndClear(undo_stack, redo_stack, history)
    IN  /\ Changes
        /\ undo_stack' = done.undo
        /\ redo_stack' = done.redo
        /\ history' = done.history
        /\ Called("clear_history", Ok(Num(0)), <<>>)
        /\ run' = NoRun
        /\ UNCHANGED <<config, observers, files, clock>>

\* Calculator.undo, whoever notes the call
UndoStep ==
    IF ~CanUndo(undo_stack)
    THEN /\ Returned("undo", Ok(FALSE), <<>>, registry)
         /\ run' = NoRun
         /\ UNCHANGED <<config, history, undo_stack, redo_stack, observers, files, clock, left>>
    ELSE LET restored == CaretakerUndo(undo_stack, redo_stack, GetAll(history))
         IN  /\ Changes
             /\ undo_stack' = restored.undo
             /\ redo_stack' = restored.redo
             /\ history' = restored.history
             /\ Returned("undo", Ok(TRUE), <<>>, registry)
             /\ run' = IF run.phase \in {"calc", "undo"}
                       THEN [run EXCEPT !.phase = "undo", !.undos = @ + 1]
                       ELSE NoRun
             /\ UNCHANGED <<config, observers, files, clock>>

\* Calculator.undo
Undo == UndoStep /\ UNCHANGED probe

\* Calculator.redo
Redo ==
    IF ~CanRedo(redo_stack)
    THEN /\ Called("redo", Ok(FALSE), <<>>)
         /\ run' = NoRun
         /\ UNCHANGED <<config, history, undo_stack, redo_stack, observers, files, clock, left>>
    ELSE LET restored == CaretakerRedo(undo_stack, redo_stack, GetAll(history))
         IN  /\ Changes
             /\ undo_stack' = restored.undo
             /\ redo_stack' = restored.redo
             /\ history' = restored.history
             /\ Called("redo", Ok(TRUE), <<>>)
             /\ run' = IF run.phase \in {"undo", "redo"}
                       THEN [run EXCEPT !.phase = "redo", !.redos = @ + 1]
                       ELSE NoRun
             /\ UNCHANGED <<config, observers, files, clock>>

\* the path an optional file_path argument names
PathOf(file_path) ==
    IF file_path = "None" THEN config.CALCULATOR_HISTORY_FILE ELSE file_path

\* Calculator.save_history
SaveHistory(file_path) ==
    LET saved == SaveToCsv(history, files, PathOf(file_path))
    IN  /\ IF saved.exc = "none" THEN Changes ELSE UNCHANGED left
        /\ files' = saved.files
        /\ Called("save_history", saved, <<>>)
        /\ run' = NoRun
        /\ UNCHANGED <<config, history, undo_stack, redo_stack, observers, clock>>

\* load_history taking a snapshot of the history it replaces
LoadHistorySavesState(file_path) ==
    LET loaded == LoadFromCsv(history, files, PathOf(file_path))
        saved  == SaveState(undo_stack, redo_stack, GetAll(history))
    IN  /\ IF loaded.history # history THEN Changes ELSE UNCHANGED left
        /\ history' = loaded.history
        /\ undo_stack' = IF loaded.exc = "none" THEN saved.undo ELSE undo_stack
        /\ redo_stack' = IF loaded.exc = "none" THEN saved.redo ELSE redo_stack
        /\ Called("load_history", loaded, <<>>)
        /\ run' = NoRun
        /\ UNCHANGED <<config, observers, files, clock>>

\* Calculator.load_history
LoadHistory(file_path) ==
    LET loaded == LoadFromCsv(history, files, PathOf(file_path))
    IN  /\ IF loaded.history # history THEN Changes ELSE UNCHANGED left
        /\ history' = loaded.history
        /\ Called("load_history", loaded, <<>>)
        /\ run' = NoRun
        /\ UNCHANGED <<config, undo_stack, redo_stack, observers, files, clock>>

\* the list without any element equal to x
RemoveEvery(seq, x) == SelectSeq(seq, LAMBDA y : y # x)

\* list.remove: the list without the first element equal to x
RECURSIVE RemoveFirst(_, _)
RemoveFirst(seq, x) ==
    IF seq = <<>> THEN <<>>
    ELSE IF Head(seq) = x THEN Tail(seq)
    ELSE <<Head(seq)>> \o RemoveFirst(Tail(seq), x)

\* x in list
In(x, seq) == \E i \in 1..Len(seq) : seq[i] = x

\* Calculator.register_observer
RegisterObserver(observer) ==
    /\ Len(observers) < MaxObservers
    /\ Changes
    /\ observers' = Append(observers, observer)
    /\ CalledWith("register_observer", Ok("None"), <<>>,
                  [times   |-> [registry.times EXCEPT ![observer] = @ + 1],
                   removed |-> registry.removed \ {observer}])
    /\ run' = NoRun
    /\ UNCHANGED <<config, history, undo_stack, redo_stack, files, clock>>

\* Calculator.remove_observer
RemoveObserver(observer) ==
    /\ IF In(observer, observers) THEN Changes ELSE UNCHANGED left
    /\ observers' = IF In(observer, observers) THEN RemoveFirst(observers, observer)
                    ELSE observers
    /\ CalledWith("remove_observer", Ok("None"), <<>>,
                  [times   |-> [registry.times EXCEPT
                                  ![observer] = IF @ > 0 THEN @ - 1 ELSE 0],
                   removed |-> registry.removed \cup {observer}])
    /\ run' = NoRun
    /\ UNCHANGED <<config, history, undo_stack, redo_stack, files, clock>>

Next ==
    \/ \E in \in CalcInputs : Calculate(in[1], in[2], in[3])
    \/ ClearHistory
    \/ Undo
    \/ Redo
    \/ \E p \in SavePaths : SaveHistory(p)
    \/ \E p \in LoadPaths : LoadHistory(p)

\* every session of at most MaxCalls changing calls
Spec == Init /\ [][Next]_vars

(***************************************************************************)
(* The sessions in which observers are registered and removed, and in      *)
(* which the configured history file may be one that cannot be written.    *)
(***************************************************************************)
RemovableObservers == CallerObservers \cup {"AutoSaveObserver"}
ObsInputs ==
    { <<StrName(Add), FloatValue(1), FloatValue(2)>>,
      <<StrName(Divide), FloatValue(1), FloatValue(0)>> }
ObsLoadPaths == {"None", MissingFile, MalformedFile}

InitObs == Fresh(MaxObsCalls)

NextObs ==
    \/ \E o \in CallerObservers : RegisterObserver(o)
    \/ \E o \in RemovableObservers : RemoveObserver(o)
    \/ \E in \in ObsInputs : Calculate(in[1], in[2], in[3])
    \/ Undo
    \/ SaveHistory("None")
    \/ \E p \in ObsLoadPaths : LoadHistory(p)

SpecObs == InitObs /\ [][NextObs]_vars

(***************************************************************************)
(* The sessions of one calculator in which the validator and the factory   *)
(* are called on their own as well.                                        *)
(***************************************************************************)
\* a function called on its own: nothing of the calculator changes
\* the call that closes a session is noted: the function, what it was
\* called with and what it raised or returned
Noted(fn, args, out) ==
    /\ probe = NoProbe
    /\ probe' = [fn |-> fn, args |-> args,
                 out |-> [exc |-> out.exc, msg |-> out.msg, val |-> out.val]]

\* a call of a function that is no method of the calculator
Probed(fn, args, out) ==
    /\ Noted(fn, args, out)
    /\ UNCHANGED <<config, history, undo_stack, redo_stack, observers, files, clock, left,
                   lastOp, ret, notified, pre, registry, run, refs, logger, frames>>

CallValidateOperation(operation) ==
    Probed("validate_operation", <<operation>>, ValidateOperation(operation))

\* InputValidator.validate_number, called on its own
CallValidateNumber(value) ==
    Probed("validate_number", <<value>>, ValidateNumber(value))

\* InputValidator.validate_operands, called on its own
CallValidateOperands(operand1, operand2) ==
    Probed("validate_operands", <<operand1, operand2>>, ValidateOperands(operand1, operand2))

\* OperationFactory.create, called on its own
CallCreate(operation_name) ==
    Probed("create", <<operation_name>>, Create(operation_name))

\* Calculator.calculate, noting what it was called with
CallCalculate(operation, operand1, operand2) ==
    /\ Noted("calculate", <<operation, operand1, operand2>>,
             Outcomes[<<operation, operand1, operand2>>])
    /\ Respond(Outcomes[<<operation, operand1, operand2>>])

InitValid ==
    /\ Fresh(MaxValidCalls)
    /\ Writable(config.CALCULATOR_HISTORY_FILE)

NextValid ==
    \/ probe = NoProbe /\ \E in \in ObsInputs : Calculate(in[1], in[2], in[3])
    \/ probe = NoProbe /\ ClearHistory
    \/ probe = NoProbe /\ Undo
    \/ \E in \in NamedInputs : CallCalculate(in[1], in[2], in[3])
    \/ \E name \in NameInputs : CallValidateOperation(name)
    \/ \E value \in NumberInputs : CallValidateNumber(value)
    \/ \E v1 \in NumberInputs, v2 \in NumberInputs : CallValidateOperands(v1, v2)
    \/ \E chars \in NameTexts : CallCreate(chars)

SpecValid == InitValid /\ [][NextValid]_vars

(***************************************************************************)
(* The operations called on their own: execute of one operation on two     *)
(* numbers, as the tests of the operations call it.                        *)
(***************************************************************************)
\* the numbers given to modulus and int_divide: the integers up to
\* MaxOperand on both sides of zero
OperandInts == { Num(k) : k \in (0 - MaxOperand)..MaxOperand }

\* the numbers given to root: with each degree other than 0 up to
\* MaxDegree on both sides of zero, the powers of that degree of the
\* integers up to MaxRootBase and their negatives; with the degree 0,
\* every integer up to MaxOperand on both sides of zero
RootPairs ==
    { <<RMul(Num(sign), RPowNat(Num(base), Abs(degree))), Num(degree)>> :
          sign \in {0 - 1, 1}, base \in 0..MaxRootBase,
          degree \in ((0 - MaxDegree)..MaxDegree) \ {0} }
        \cup { <<a, Num(0)>> : a \in OperandInts }

\* Operation.execute, called on its own
CallExecute(cls, a, b) == Probed("execute", <<cls, a, b>>, Execute(cls, a, b))

InitOps == Fresh(0)

NextOps ==
    \/ \E pair \in RootPairs : CallExecute("RootOperation", pair[1], pair[2])
    \/ \E a \in OperandInts, b \in OperandInts : CallExecute("ModulusOperation", a, b)
    \/ \E a \in OperandInts, b \in OperandInts : CallExecute("IntDivideOperation", a, b)

SpecOps == InitOps /\ [][NextOps]_vars

(***************************************************************************)
(* The logger on its own, as its tests use it: setup, get_logger and the   *)
(* assignment of None to CalculatorLogger._logger.                         *)
(***************************************************************************)
\* a call of CalculatorLogger: nothing of the calculator changes
LoggerCalled(op, lg) ==
    /\ Len(logger.calls) < MaxLoggerCalls
    /\ logger' = [lg EXCEPT !.calls = Append(@, op)]
    /\ UNCHANGED <<config, history, undo_stack, redo_stack, observers, files, clock, left,
                   lastOp, ret, notified, pre, registry, run, refs, probe, frames>>

CallSetup == LoggerCalled("setup", Setup(logger))

CallGetLogger == LoggerCalled("get_logger", GetLogger(logger))

\* CalculatorLogger._logger = None
ResetLogger ==
    LoggerCalled("reset", [logger EXCEPT !.stored = FALSE, !.exc = "none", !.val = "None"])

\* a process in which no Calculator has been constructed: the variables
\* of the calculator never change
InitLogger == FreshAs(0, InitialFiles, NoLogger)

NextLogger ==
    \/ CallSetup
    \/ CallGetLogger
    \/ ResetLogger

SpecLogger == InitLogger /\ [][NextLogger]_vars

(***************************************************************************)
(* The sessions of calculate, clear_history, undo and redo that end with   *)
(* undo called again and again until it returns False.  While undo is      *)
(* repeated, probe notes the depth of the undo stack when the repetition   *)
(* began and how many of the calls returned True and how many False.       *)
(***************************************************************************)
\* undo is being repeated; one call has returned False
Repeating == probe.fn = "undo"
Drained == Repeating /\ probe.args[3] = 1

\* one more call of undo in the repetition
RepeatedUndo ==
    /\ ~Drained
    /\ probe' = [fn   |-> "undo",
                 args |-> <<IF Repeating THEN probe.args[1] ELSE Len(undo_stack),
                            (IF Repeating THEN probe.args[2] ELSE 0)
                                + (IF CanUndo(undo_stack) THEN 1 ELSE 0),
                            IF CanUndo(undo_stack) THEN 0 ELSE 1>>,
                 out  |-> NoProbe.out]
    /\ UndoStep

\* the calls before the repetition leave as many calls for it as they made
InitDrain == Fresh(2 * MaxDrainCalls) /\ Writable(config.CALCULATOR_HISTORY_FILE)

NextDrain ==
    \/ ~Repeating /\ left > MaxDrainCalls /\ \E in \in ObsInputs : Calculate(in[1], in[2], in[3])
    \/ ~Repeating /\ left > MaxDrainCalls /\ ClearHistory
    \/ ~Repeating /\ left > MaxDrainCalls /\ Undo
    \/ ~Repeating /\ left > MaxDrainCalls /\ Redo
    \/ RepeatedUndo

SpecDrain == InitDrain /\ [][NextDrain]_vars

(***************************************************************************)
(* The notification round update by update.  _notify_observers iterates    *)
(* over self.observers itself, the list that register_observer appends to  *)
(* and remove_observer removes from: the for statement keeps an index into *)
(* the list, takes the element at the index while the index is less than   *)
(* the length the list has then, and moves the index on by one.  The frame *)
(* of the round is that index, the record and what calculate will return.  *)
(***************************************************************************)
MaxRoundCalls == 3

\* the observers that the update of a meddling observer registers or removes
Meddled == {QuietObserver, MeddlingObserver}

\* Calculator.calculate, lines 137-149 and the call of line 152: the record,
\* the snapshot, the append, and the round is entered
BeginRound(out) ==
    LET calculation == Calculation(out.operation, out.operand1, out.operand2,
                                   out.val, clock)
        done        == SaveAndAdd(undo_stack, redo_stack, history, calculation, max_size)
    IN  /\ Changes
        /\ clock' = clock + 1
        /\ undo_stack' = done.undo
        /\ redo_stack' = done.redo
        /\ history' = done.history
        /\ frames' = <<[fn |-> "_notify_observers", calculation |-> calculation,
                        index |-> 0, out |-> [exc |-> out.exc, val |-> out.val]]>>
        /\ notified' = <<>>
        /\ pre' = [history |-> history, undo_stack |-> undo_stack,
                   redo_stack |-> redo_stack, files |-> files, observers |-> observers,
                   saved |-> IF lastOp = "save_history" /\ ret.exc = "none"
                             THEN ret.val ELSE "none"]
        /\ run' = NoRun
        /\ UNCHANGED <<config, observers, files, lastOp, ret, registry, refs, probe, logger>>

\* Calculator.calculate with the notification round still to come
CalculateInSteps(operation, operand1, operand2) ==
    LET out == Outcomes[<<operation, operand1, operand2>>]
    IN  IF out.exc # "none"
        THEN RaiseFromCalculate(out) /\ UNCHANGED probe
        ELSE BeginRound(out)

\* Calculator._notify_observers, one turn of the loop of line 104: the
\* element at the index is notified; what leaves its update is caught
UpdateNext ==
    /\ frames # <<>>
    /\ frames[1].index < Len(observers)
    /\ LET frame    == frames[1]
           observer == observers[frame.index + 1]
           visible  == [history |-> history, undo_stack |-> undo_stack]
       IN  /\ notified' = Append(notified, Notification(observer, frame.calculation, visible))
           /\ frames' = <<[frame EXCEPT !.index = @ + 1]>>
           /\ IF observer = MeddlingObserver
              THEN /\ \E o \in Meddled :
                        \/ /\ Len(observers) < MaxObservers
                           /\ observers' = Append(observers, o)
                           /\ registry' = [times   |-> [registry.times EXCEPT ![o] = @ + 1],
                                           removed |-> registry.removed \ {o}]
                        \/ /\ observers' = IF In(o, observers)
                                            THEN RemoveFirst(observers, o) ELSE observers
                           /\ registry' = [times   |-> [registry.times EXCEPT
                                                          ![o] = IF @ > 0 THEN @ - 1 ELSE 0],
                                           removed |-> registry.removed \cup {o}]
                   /\ UNCHANGED files
              ELSE /\ files' = ObserverUpdate(observer, frame.calculation, visible, files).files
                   /\ UNCHANGED <<observers, registry>>
    /\ UNCHANGED <<config, history, undo_stack, redo_stack, clock, left,
                   lastOp, ret, pre, run, refs, probe, logger>>

\* the loop of line 104 finds the index at the end of the list: the round
\* is over and calculate returns the result
EndRound ==
    /\ frames # <<>>
    /\ frames[1].index >= Len(observers)
    /\ frames' = <<>>
    /\ lastOp' = "calculate"
    /\ ret' = frames[1].out
    /\ UNCHANGED <<config, history, undo_stack, redo_stack, observers, files, clock, left,
                   notified, pre, registry, run, refs, probe, logger>>

InitNotify == Fresh(MaxRoundCalls)

NextNotify ==
    \/ frames = <<>> /\ \E o \in CallerObservers \cup {MeddlingObserver} : RegisterObserver(o)
    \/ frames = <<>> /\ \E o \in RemovableObservers : RemoveObserver(o)
    \/ frames = <<>> /\ \E in \in ObsInputs : CalculateInSteps(in[1], in[2], in[3])
    \/ UpdateNext
    \/ EndRound

SpecNotify == InitNotify /\ [][NextNotify]_vars

(***************************************************************************)
(* Two threads that call calculate of one calculator.  The calculator has  *)
(* no lock of its own; the callers either take one mutex around each call  *)
(* or none.  The frame of a call holds where the call is: called (lines    *)
(* 118-143 are done), read (get_all of line 146 has returned the copy),    *)
(* saved (save_state has returned), added (line 149 is done); after the    *)
(* notification of line 152 the call returns and the thread is idle.  A    *)
(* frame also keeps the history its last append found and the number of    *)
(* that append among all appends.                                          *)
(***************************************************************************)
MaxThreadCalls == 3
Threads == {1, 2}

IdleFrame(mutex) ==
    [fn |-> "calculate", pc |-> "idle", mutex |-> mutex, out |-> Ok(Num(0)),
     calculation |-> <<>>, copy |-> <<>>, before |-> <<>>, turn |-> 0]

\* the callers start their threads, behind one mutex or behind none
StartThreads(mutex) ==
    /\ frames = <<>>
    /\ frames' = [t \in Threads |-> IdleFrame(mutex)]
    /\ UNCHANGED <<config, history, undo_stack, redo_stack, observers, files, clock, left,
                   lastOp, ret, notified, pre, registry, run, refs, probe, logger>>

\* no call is in progress
Quiescent == \A t \in DOMAIN frames : frames[t].pc = "idle"

\* how many appends there have been, and the history the last one found
Appends ==
    IF \E t \in DOMAIN frames : frames[t].turn > 0
    THEN CHOOSE n \in 1..(2 * MaxThreadCalls + 2) :
            /\ \E t \in DOMAIN frames : frames[t].turn = n
            /\ \A t \in DOMAIN frames : frames[t].turn <= n
    ELSE 0
BeforeLastAppend ==
    frames[CHOOSE t \in DOMAIN frames : frames[t].turn = Appends].before

\* the rest of a step of a thread
ThreadStepped ==
    UNCHANGED <<config, observers, left, lastOp, ret, notified, pre, registry, run,
                refs, probe, logger>>

\* a thread that calls calculate as if there were no mutex
ThreadCallWithoutMutex(t, operation, operand1, operand2) ==
    LET out == Outcomes[<<operation, operand1, operand2>>]
    IN  /\ frames # <<>>
        /\ frames[t].pc = "idle"
        /\ out.exc = "none"
        /\ Changes
        /\ clock' = clock + 1
        /\ frames' = [frames EXCEPT ![t] =
                         [@ EXCEPT !.pc = "called", !.out = out,
                                   !.calculation = Calculation(out.operation, out.operand1,
                                                               out.operand2, out.val, clock)]]
        /\ pre' = [history |-> history, undo_stack |-> undo_stack,
                   redo_stack |-> redo_stack, files |-> files, observers |-> observers,
                   saved |-> "none"]
        /\ UNCHANGED <<config, history, undo_stack, redo_stack, observers, files,
                       lastOp, ret, notified, registry, run, refs, probe, logger>>

\* Calculator.calculate, lines 118-143, in thread t: the call is made when
\* the mutex, if the callers use one, is free; the record is built
ThreadCall(t, operation, operand1, operand2) ==
    LET out == Outcomes[<<operation, operand1, operand2>>]
    IN  /\ frames # <<>>
        /\ frames[t].pc = "idle"
        /\ frames[t].mutex => Quiescent
        /\ out.exc = "none"
        /\ Changes
        /\ clock' = clock + 1
        /\ frames' = [frames EXCEPT ![t] =
                         [@ EXCEPT !.pc = "called", !.out = out,
                                   !.calculation = Calculation(out.operation, out.operand1,
                                                               out.operand2, out.val, clock)]]
        /\ pre' = [history |-> history, undo_stack |-> undo_stack,
                   redo_stack |-> redo_stack, files |-> files, observers |-> observers,
                   saved |-> "none"]
        /\ UNCHANGED <<config, history, undo_stack, redo_stack, observers, files,
                       lastOp, ret, notified, registry, run, refs, probe, logger>>

\* line 146, the argument: self.history_manager.get_all()
ThreadRead(t) ==
    /\ frames # <<>>
    /\ frames[t].pc = "called"
    /\ frames' = [frames EXCEPT ![t] = [@ EXCEPT !.pc = "read", !.copy = GetAll(history)]]
    /\ ThreadStepped
    /\ UNCHANGED <<history, undo_stack, redo_stack, files, clock>>

\* line 146, the call: self.caretaker.save_state of the copy
ThreadSave(t) ==
    /\ frames # <<>>
    /\ frames[t].pc = "read"
    /\ LET saved == SaveState(undo_stack, redo_stack, frames[t].copy)
       IN  /\ undo_stack' = saved.undo
           /\ redo_stack' = saved.redo
    /\ frames' = [frames EXCEPT ![t] = [@ EXCEPT !.pc = "saved", !.copy = <<>>]]
    /\ ThreadStepped
    /\ UNCHANGED <<history, files, clock>>

\* line 149: self.history_manager.add of the record
ThreadAdd(t) ==
    /\ frames # <<>>
    /\ frames[t].pc = "saved"
    /\ history' = HistoryAdd(history, frames[t].calculation, max_size)
    /\ frames' = [frames EXCEPT ![t] =
                     [@ EXCEPT !.pc = "added", !.before = history, !.turn = Appends + 1]]
    /\ ThreadStepped
    /\ UNCHANGED <<undo_stack, redo_stack, files, clock>>

\* line 152 and the return of line 154
ThreadNotify(t) ==
    /\ frames # <<>>
    /\ frames[t].pc = "added"
    /\ LET round == NotifyObservers(observers, frames[t].calculation,
                                    [history |-> history, undo_stack |-> undo_stack], files)
       IN  /\ files' = round.files
           /\ notified' = round.notified
    /\ lastOp' = "calculate"
    /\ ret' = [exc |-> "none", val |-> frames[t].out.val]
    /\ frames' = [frames EXCEPT ![t] =
                     [@ EXCEPT !.pc = "idle", !.out = Ok(Num(0)), !.calculation = <<>>]]
    /\ UNCHANGED <<config, history, undo_stack, redo_stack, observers, clock, left,
                   pre, registry, run, refs, probe, logger>>

InitThreads == Fresh(MaxThreadCalls) /\ Writable(config.CALCULATOR_HISTORY_FILE)

NextThreads ==
    \/ \E mutex \in BOOLEAN : StartThreads(mutex)
    \/ \E t \in Threads : \E in \in ObsInputs : ThreadCall(t, in[1], in[2], in[3])
    \/ \E t \in Threads : ThreadRead(t)
    \/ \E t \in Threads : ThreadSave(t)
    \/ \E t \in Threads : ThreadAdd(t)
    \/ \E t \in Threads : ThreadNotify(t)
    \/ frames # <<>> /\ Quiescent /\ Undo

SpecThreads == InitThreads /\ [][NextThreads]_vars

(***************************************************************************)
(* The REPL (repl.py): CalculatorREPL.run reads a line, hands it to        *)
(* process_command, and does so while self.running.  The frame of run      *)
(* holds self.running and, of the last turn that called no method of the   *)
(* calculator that changes it, what was read and what was printed.         *)
(***************************************************************************)
MaxReplCalls == 2

\* what input() did: it returned a line, or it raised
Line(chars) == [raised |-> "none", line |-> chars]
Raised(exception) == [raised |-> exception, line |-> <<>>]

\* the lines that input() returns
ReplLines ==
    { <<>>,
      <<" ", " ">>,
      <<"e", "x", "i", "t">>,
      <<"E", "X", "I", "T">>,
      <<" ", "Q", "u", "i", "t", " ">>,
      <<"h", "e", "l", "p">>,
      <<"h", "i", "s", "t", "o", "r", "y">>,
      <<"c", "l", "e", "a", "r">>,
      <<"u", "n", "d", "o">>,
      <<"r", "e", "d", "o">>,
      <<"s", "a", "v", "e">>,
      <<"l", "o", "a", "d">>,
      <<"b", "o", "g", "u", "s">>,
      <<"a", "d", "d">>,
      <<"A", "d", "d", " ", "1">>,
      <<"A", "D", "D", " ", "1", " ", "2">>,
      <<"d", "i", "v", "i", "d", "e", " ", "1", " ", "0">>,
      <<"a", "d", "d", " ", "x", " ", "2">> }

\* str.split(): the words between runs of whitespace
RECURSIVE Split(_)
Split(s) ==
    LET rest == LStrip(s)
        stop == IF \E i \in 1..Len(rest) : rest[i] \in Whitespace
                THEN CHOOSE i \in 1..Len(rest) :
                        /\ rest[i] \in Whitespace
                        /\ \A j \in 1..(i - 1) : rest[j] \notin Whitespace
                ELSE Len(rest) + 1
    IN  IF rest = <<>> THEN <<>>
        ELSE <<SubSeq(rest, 1, stop - 1)>> \o Split(SubSeq(rest, stop, Len(rest)))

\* a command word compared as it was typed
CommandWordAsTyped(parts) == parts[1]

\* process_command, line 153: cmd = parts[0].lower()
CommandWord(parts) == Lower(parts[1])

\* CalculatorREPL.__init__ and the start of run
StartRepl ==
    /\ frames = <<>>
    /\ frames' = <<[fn |-> "run", running |-> TRUE, read |-> Line(<<>>), printed |-> "welcome"]>>
    /\ UNCHANGED <<config, history, undo_stack, redo_stack, observers, files, clock, left,
                   lastOp, ret, notified, pre, registry, run, refs, probe, logger>>

\* a turn of the loop that calls no method of the calculator that changes it
Said(read, printed, running) ==
    /\ frames' = <<[fn |-> "run", running |-> running, read |-> read, printed |-> printed]>>
    /\ UNCHANGED <<config, history, undo_stack, redo_stack, observers, files, clock, left,
                   lastOp, ret, notified, pre, registry, run, refs, probe, logger>>

\* float() of an operand typed on the line
TypedFloat(word) == [type |-> "float", parses |-> TRUE, num |-> FloatOf(word).val]

\* CalculatorREPL.handle_calculation
HandleCalculation(line, operation, args) ==
    IF Len(args) < 2
    THEN Said(Line(line), "Error: Calculation requires two operands", TRUE)
    ELSE IF FloatOf(args[1]).exc # "none" \/ FloatOf(args[2]).exc # "none"
    THEN Said(Line(line), "Error: Invalid input", TRUE)
    ELSE Calculate(StrName(operation), TypedFloat(args[1]), TypedFloat(args[2]))

\* CalculatorREPL.process_command, called by run with the line read
ProcessCommand(line) ==
    LET parts == Split(Strip(line))
        cmd   == CommandWord(parts)
        args  == Tail(parts)
    IN  IF parts = <<>> THEN Said(Line(line), "", TRUE)
        ELSE IF cmd \in GetAvailableOperations THEN HandleCalculation(line, cmd, args)
        ELSE IF cmd \in {<<"e", "x", "i", "t">>, <<"q", "u", "i", "t">>}
        THEN Said(Line(line), "Goodbye!", FALSE)
        ELSE IF cmd = <<"h", "e", "l", "p">> THEN Said(Line(line), "help", TRUE)
        ELSE IF cmd = <<"h", "i", "s", "t", "o", "r", "y">> THEN Said(Line(line), "history", TRUE)
        ELSE IF cmd = <<"c", "l", "e", "a", "r">> THEN ClearHistory
        ELSE IF cmd = <<"u", "n", "d", "o">> THEN Undo
        ELSE IF cmd = <<"r", "e", "d", "o">> THEN Redo
        ELSE IF cmd = <<"s", "a", "v", "e">> THEN SaveHistory("None")
        ELSE IF cmd = <<"l", "o", "a", "d">> THEN LoadHistory("None")
        ELSE Said(Line(line), "Error: Unknown command", TRUE)

\* CalculatorREPL.run, one turn of the loop in which input() returns a line
Turn(line) ==
    /\ frames # <<>>
    /\ frames[1].running
    /\ ProcessCommand(line)

\* a turn in which input() raises KeyboardInterrupt or EOFError, or in which
\* an exception of another class leaves input() or process_command
TurnRaises(exception) ==
    /\ frames # <<>>
    /\ frames[1].running
    /\ CASE exception = "KeyboardInterrupt" -> Said(Raised(exception), "Use 'exit' to quit", TRUE)
         [] exception = "EOFError"          -> Said(Raised(exception), "Goodbye!", FALSE)
         [] OTHER                           -> Said(Raised(exception), "Error: Unexpected error", TRUE)

InitRepl == Fresh(MaxReplCalls) /\ Writable(config.CALCULATOR_HISTORY_FILE)

NextRepl ==
    \/ StartRepl
    \/ \E line \in ReplLines : Turn(line)
    \/ \E exception \in {"KeyboardInterrupt", "EOFError", "Exception"} : TurnRaises(exception)

SpecRepl == InitRepl /\ [][NextRepl]_vars

(***************************************************************************)
(* The sessions that load a history file of any content: any set of        *)
(* columns, any rows.                                                      *)
(***************************************************************************)
\* the header rows: the required columns, one more, or one fewer
ColumnSets ==
    {RequiredColumns, RequiredColumns \cup {"note"}}
        \cup { RequiredColumns \ {c} : c \in RequiredColumns }

\* the rows: two that from_dict accepts, one whose operand float() rejects,
\* one whose timestamp fromisoformat rejects
RowPool ==
    { ForeignRow(1), ForeignRow(2), ForeignRow(3),
      [ForeignRow(1) EXCEPT !.timestamp = <<"n", "o", "w">>] }

RowSeqs == UNION { [1..k -> RowPool] : k \in 0..MaxRows }

\* the file with these columns and, under them, the cells of these rows
CsvFile(columns, rows) ==
    [exists  |-> TRUE,
     columns |-> columns,
     rows    |-> [i \in 1..Len(rows) |->
                    [c \in columns |-> IF c = "note" THEN <<"x">> ELSE rows[i][c]]]]

InitLoad ==
    \E columns \in ColumnSets, rows \in RowSeqs :
        /\ FreshWith(MaxLoadCalls, [InitialFiles EXCEPT ![HistoryFile] = CsvFile(columns, rows)])
        /\ config.CALCULATOR_HISTORY_FILE = HistoryFile
        /\ ~config.CALCULATOR_AUTO_SAVE

NextLoad ==
    \/ \E in \in ObsInputs : Calculate(in[1], in[2], in[3])
    \/ Undo
    \/ \E p \in {"None", EmptyFile} : LoadHistory(p)

SpecLoad == InitLoad /\ [][NextLoad]_vars

(***************************************************************************)
(* The sessions that are N calculate calls, then k undo calls, then j redo *)
(* calls, on a fresh calculator.                                           *)
(***************************************************************************)
InitRun == Fresh(MaxRunCalls) /\ Writable(config.CALCULATOR_HISTORY_FILE)

NextRun ==
    \/ run.phase = "calc" /\ \E in \in CalcInputs : Calculate(in[1], in[2], in[3])
    \/ run.phase \in {"calc", "undo"} /\ Undo
    \/ run.phase \in {"undo", "redo"} /\ Redo

SpecRun == InitRun /\ [][NextRun]_vars

(***************************************************************************)
(* The sessions followed object by object: the calls of the calculator     *)
(* that make, copy or return lists and records, and what a caller can do   *)
(* to a list it was returned.  Temporary lists that no variable keeps      *)
(* (the argument of save_state, undo and redo) are not kept in lists.      *)
(***************************************************************************)
\* the fields of the elements of a list, in order
Fields(objs, ids) == [i \in 1..Len(ids) |-> objs[ids[i]]]

\* a memento that keeps the records it is given in a new list
MementoSharesRecords(objs, lsts, ids) ==
    [objects |-> objs, lists |-> Append(lsts, ids), list |-> Len(lsts) + 1]

\* copy.deepcopy of a list: a new list of new records with the same fields
DeepCopyRefs(objs, lsts, ids) ==
    [objects |-> objs \o Fields(objs, ids),
     lists   |-> Append(lsts, [i \in 1..Len(ids) |-> Len(objs) + i]),
     list    |-> Len(lsts) + 1]

\* CalculatorMemento.__init__ and CalculatorMemento.get_history
MementoRefs(objs, lsts, ids) == DeepCopyRefs(objs, lsts, ids)
MementoGetHistoryRefs(objs, lsts, memento) == DeepCopyRefs(objs, lsts, lsts[memento])

\* the record of calculate('add', 1, 2)
AddOneTwo == <<StrName(Add), FloatValue(1), FloatValue(2)>>

\* a record the caller constructs, and a value the caller assigns to a field
CallerRecord == Calculation(Add, Num(0), Num(0), Num(0), 0 - 100)
CallerValue == Num(0 - 1)

\* a step of the session; the value-level variables are left alone
Stepped(op, from) ==
    /\ Changes
    /\ step' = [op |-> op, from |-> from]
    /\ UNCHANGED <<config, history, undo_stack, redo_stack, observers, files,
                   lastOp, ret, notified, pre, registry, run, aside>>

\* Calculator.calculate, lines 137-149, for a call that succeeds
CalculateRefs(out) ==
    LET snap == MementoRefs(objects, lists, lists[live])
        made == Len(snap.objects) + 1
    IN  /\ Stepped("calculate", "none")
        /\ clock' = clock + 1
        /\ objects' = Append(snap.objects,
                             Calculation(out.operation, out.operand1, out.operand2,
                                         out.val, clock))
        /\ lists' = [snap.lists EXCEPT ![live] = HistoryAdd(@, made, max_size)]
        /\ undo_mementos' = Append(undo_mementos, snap.list)
        /\ redo_mementos' = <<>>
        /\ stored' = Append(stored, Fields(objects, lists[live]))
        /\ UNCHANGED <<live, held>>

\* Calculator.clear_history
ClearHistoryRefs ==
    LET snap == MementoRefs(objects, lists, lists[live])
    IN  /\ Stepped("clear_history", "none")
        /\ objects' = snap.objects
        /\ lists' = [snap.lists EXCEPT ![live] = HistoryClear(@)]
        /\ undo_mementos' = Append(undo_mementos, snap.list)
        /\ redo_mementos' = <<>>
        /\ stored' = Append(stored, Fields(objects, lists[live]))
        /\ UNCHANGED <<live, held, clock>>

\* Calculator.undo where can_undo(): the current history is copied onto the
\* redo stack, then a copy of the popped memento's list becomes the history
UndoRefs ==
    LET current  == MementoRefs(objects, lists, lists[live])
        previous == MementoGetHistoryRefs(current.objects, current.lists, Last(undo_mementos))
    IN  /\ undo_mementos # <<>>
        /\ Stepped("undo", "none")
        /\ objects' = previous.objects
        /\ lists' = previous.lists
        /\ live' = previous.list
        /\ undo_mementos' = Front(undo_mementos)
        /\ redo_mementos' = Append(redo_mementos, current.list)
        /\ stored' = stored \o <<Fields(objects, lists[live]), <<>>>>
        /\ UNCHANGED <<held, clock>>

\* Calculator.redo where can_redo()
RedoRefs ==
    LET current == MementoRefs(objects, lists, lists[live])
        next    == MementoGetHistoryRefs(current.objects, current.lists, Last(redo_mementos))
    IN  /\ redo_mementos # <<>>
        /\ Stepped("redo", "none")
        /\ objects' = next.objects
        /\ lists' = next.lists
        /\ live' = next.list
        /\ undo_mementos' = Append(undo_mementos, current.list)
        /\ redo_mementos' = Front(redo_mementos)
        /\ stored' = stored \o <<Fields(objects, lists[live]), <<>>>>
        /\ UNCHANGED <<held, clock>>

\* Calculator.get_history: a new list of the same records, handed to the caller
GetHistoryRefs ==
    /\ Stepped("get_history", "none")
    /\ lists' = Append(lists, GetAll(lists[live]))
    /\ stored' = Append(stored, <<>>)
    /\ held' = held \cup {[list |-> Len(lists) + 1, from |-> "get_history"]}
    /\ UNCHANGED <<objects, live, undo_mementos, redo_mementos, clock>>

\* Calculator.load_history of a file that exists and has the columns: the
\* list of new records becomes the history and is what the caller is returned
LoadHistoryRefs(file_path) ==
    LET loaded == LoadFromCsv(<<>>, files, file_path)
        count  == Len(loaded.val)
    IN  /\ files[file_path].exists
        /\ loaded.exc = "none"
        /\ Stepped("load_history", "none")
        /\ objects' = objects \o loaded.val
        /\ lists' = Append(lists, [i \in 1..count |-> Len(objects) + i])
        /\ stored' = Append(stored, <<>>)
        /\ live' = Len(lists) + 1
        /\ held' = held \cup {[list |-> Len(lists) + 1, from |-> "load_history"]}
        /\ UNCHANGED <<undo_mementos, redo_mementos, clock>>

\* the caller appends a record to a list it was returned
CallerAppends(h) ==
    /\ Stepped("append", h.from)
    /\ objects' = Append(objects, CallerRecord)
    /\ lists' = [lists EXCEPT ![h.list] = Append(@, Len(objects) + 1)]
    /\ UNCHANGED <<live, undo_mementos, redo_mementos, held, stored, clock>>

\* the caller removes the first element of a list it was returned
CallerRemoves(h) ==
    /\ lists[h.list] # <<>>
    /\ Stepped("remove", h.from)
    /\ lists' = [lists EXCEPT ![h.list] = Tail(@)]
    /\ UNCHANGED <<objects, live, undo_mementos, redo_mementos, held, stored, clock>>

\* the caller assigns to a field of a record of a list it was returned
\* (Calculation is a dataclass that is not frozen)
CallerSetsField(h, i) ==
    /\ i \in 1..Len(lists[h.list])
    /\ objects[lists[h.list][i]].result # CallerValue
    /\ Stepped("set_field", h.from)
    /\ objects' = [objects EXCEPT ![lists[h.list][i]].result = CallerValue]
    /\ UNCHANGED <<lists, live, undo_mementos, redo_mementos, held, stored, clock>>

InitRefs ==
    /\ Fresh(MaxRefSteps)
    /\ ~config.CALCULATOR_AUTO_SAVE
    /\ Writable(config.CALCULATOR_HISTORY_FILE)

NextRefs ==
    \/ CalculateRefs(Outcomes[AddOneTwo])
    \/ ClearHistoryRefs
    \/ UndoRefs
    \/ RedoRefs
    \/ GetHistoryRefs
    \/ LoadHistoryRefs(ForeignFile)
    \/ \E h \in held : CallerAppends(h)
    \/ \E h \in held : CallerRemoves(h)
    \/ \E h \in held : \E i \in 1..(MaxSize + 2) : CallerSetsField(h, i)

SpecRefs == InitRefs /\ [][NextRefs]_vars

(***************************************************************************)
(* Properties of the history and of undo and redo.                         *)
(***************************************************************************)
Min(a, b) == IF a < b THEN a ELSE b

Acted(op) == lastOp = op /\ ret.exc = "none"

NewAction == Acted("calculate") \/ Acted("clear_history")

\* C1: after N successful calculate calls on a fresh calculator of capacity
\* M >= 1, the history holds min(N, M) records, and they are the most recent
\* min(N, M) records created, oldest first.
C1_MostRecentRecordsOldestFirst ==
    run.phase = "calc" =>
        LET N    == Len(run.made)
            keep == Min(N, max_size)
        IN  /\ Len(history) = keep
            /\ history = SubSeq(run.made, N - keep + 1, N)

C1_TwoRecordsEvicted ==
    run.phase = "calc" /\ Len(run.made) = max_size + 2

\* C2: in every state that calculate, clear_history, undo, redo,
\* save_history and load_history can reach, the history is no longer than
\* max_size.
C2_HistoryWithinMaxSize == Len(history) <= max_size

\* C3: where undo succeeds, a redo that directly follows it succeeds and
\* leaves the history equal, records and order, to the history before the
\* undo.
C3_UndoThenRedoRestores ==
    [][(lastOp = "undo" /\ ret.val = TRUE /\ lastOp' = "redo")
         => (ret'.val = TRUE /\ history' = pre.history)]_vars

C3_UndoneAndRedone ==
    /\ run.phase = "redo" /\ run.undos = 1 /\ run.redos = 1
    /\ Len(run.made) > max_size

\* C4: a successful calculate or clear_history leaves the redo stack empty,
\* also after undo calls, and a redo that directly follows it returns False
\* and leaves the history as it is.
C4_NewActionDropsRedo ==
    [][/\ NewAction' => redo_stack' = <<>>
       /\ (NewAction /\ lastOp' = "redo") => (ret'.val = FALSE /\ history' = history)]_vars

C4_RedoWasPending ==
    NewAction /\ pre.redo_stack # <<>> /\ left > 0

\* C5: after a successful calculate or clear_history the top undo snapshot
\* equals the history as it was before that call, and an undo that directly
\* follows restores that history, an evicted record included.
C5_SnapshotIsPriorHistory ==
    [][/\ NewAction' => /\ undo_stack' # <<>>
                        /\ MementoGetHistory(Last(undo_stack')) = pre'.history
       /\ (NewAction /\ lastOp' = "undo") => (ret'.val = TRUE /\ history' = pre.history)]_vars

C5_EvictedRecordIsBack ==
    /\ run.phase = "undo" /\ run.undos = 1
    /\ Len(run.made) > max_size
    /\ Head(history) = run.made[Len(run.made) - max_size]

\* the calls of C6: a zero second operand for divide, modulus, int_divide or
\* percent, and a name that is not in the registry
ZeroDivisor(in) ==
    /\ in[1].isStr /\ in[2].parses /\ in[3].parses
    /\ Lower(Strip(in[1].chars)) \in
           { Divide, <<"m", "o", "d", "u", "l", "u", "s">>,
             <<"i", "n", "t", "_", "d", "i", "v", "i", "d", "e">>,
             <<"p", "e", "r", "c", "e", "n", "t">> }
    /\ in[3].num = Num(0)

UnknownName(in) ==
    /\ in[1].isStr /\ in[2].parses /\ in[3].parses
    /\ Strip(in[1].chars) # <<>>
    /\ Lower(Strip(in[1].chars)) \notin GetAvailableOperations

\* the calls of a session that C6 names
NamedByC6 == { in \in CalcInputs : ZeroDivisor(in) \/ UnknownName(in) }

\* C6: a calculate call with a zero divisor or an unknown name raises
\* OperationError, and a calculate call that raises leaves the history, the
\* undo stack, the redo stack (also one left by an undo) and the files as
\* they were and notifies no observer.
C6_FailedCalculateChangesNothing ==
    [][lastOp' = "calculate" =>
         /\ ret'.exc # "OperationError" =>
              \A in \in NamedByC6 : ~Calculate(in[1], in[2], in[3])
         /\ ret'.exc # "none" =>
              /\ history' = history
              /\ undo_stack' = undo_stack
              /\ redo_stack' = redo_stack
              /\ files' = files
              /\ notified' = <<>>]_vars

C6_FailedAfterUndo ==
    /\ lastOp = "calculate" /\ ret.exc = "OperationError"
    /\ redo_stack # <<>> /\ history # <<>>

\* strip() and lower() of the names that are strings
Normalized ==
    [in \in { i \in CalcInputs : i[1].isStr } |-> Lower(Strip(in[1].chars))]

C8_UndoAndRedoWalkBack ==
    LET N == Len(run.made)
    IN  /\ run.phase = "undo" => history = run.trail[N - run.undos + 1]
        /\ (run.phase = "redo" /\ run.redos = run.undos) => history = run.trail[N + 1]

C8_TwoUndoneTwoRedone ==
    /\ run.phase = "redo" /\ run.undos = 2 /\ run.redos = 2
    /\ Len(run.made) > max_size

\* C9: undo returns False exactly when the undo stack is empty and then
\* changes neither the history nor a stack; otherwise it returns True and the
\* history is the top snapshot, popped from the undo stack.  redo is the
\* same with the stacks exchanged.
C9_UndoRedoReturnValue ==
    /\ lastOp = "undo" =>
         /\ ret.val = FALSE <=> pre.undo_stack = <<>>
         /\ IF ret.val
            THEN /\ history = Last(pre.undo_stack)._history
                 /\ undo_stack = Front(pre.undo_stack)
            ELSE /\ history = pre.history
                 /\ undo_stack = pre.undo_stack
                 /\ redo_stack = pre.redo_stack
    /\ lastOp = "redo" =>
         /\ ret.val = FALSE <=> pre.redo_stack = <<>>
         /\ IF ret.val
            THEN /\ history = Last(pre.redo_stack)._history
                 /\ redo_stack = Front(pre.redo_stack)
            ELSE /\ history = pre.history
                 /\ undo_stack = pre.undo_stack
                 /\ redo_stack = pre.redo_stack

C9_UndoOnEmptyStack ==
    /\ lastOp = "undo" /\ ret.val = FALSE
    /\ redo_stack # <<>> /\ history # <<>>

\* C10: clear_history on a history H leaves the history empty, and an undo
\* that directly follows returns True and restores H.
C10_ClearThenUndo ==
    [][/\ lastOp' = "clear_history" => history' = <<>>
       /\ (lastOp = "clear_history" /\ lastOp' = "undo")
            => (ret'.val = TRUE /\ history' = pre.history)]_vars

C10_ClearedNonEmpty ==
    lastOp = "clear_history" /\ Len(pre.history) = max_size /\ left > 0

(***************************************************************************)
(* Properties of records and lists as objects.                             *)
(***************************************************************************)
Elements(l) == { lists[l][i] : i \in 1..Len(lists[l]) }

Mementos ==
    { undo_mementos[i] : i \in 1..Len(undo_mementos) } \cup
    { redo_mementos[i] : i \in 1..Len(redo_mementos) }

CallerSteps == {"append", "remove", "set_field"}

\* the records of this session's calculate calls carry the ticks of its
\* clock; the records of a file and of the caller carry earlier instants
MadeByCalculate(r) == objects[r].timestamp >= 0

\* C11: every snapshot on the undo or the redo stack has the contents it was
\* stored with, whatever calculate, clear_history, load_history, undo, redo
\* and a caller with the lists it was returned have done since, and it is
\* not the live history and shares no record with the live history.
C11_SnapshotsAreIndependent ==
    \A m \in Mementos :
        /\ Fields(objects, lists[m]) = stored[m]
        /\ m # live
        /\ Elements(m) \cap Elements(live) = {}

C11_CallerChangedLiveRecord ==
    /\ step.op = "set_field"
    /\ undo_mementos # <<>> /\ redo_mementos # <<>>
    /\ \E i \in 1..Len(lists[live]) : objects[lists[live][i]].result = CallerValue

\* C12: nothing a caller does to the list get_history returned (appending,
\* removing, assigning to a field of a record in it) changes the records and
\* fields that the live history, and so a later get_history, shows.
C12_CallerCannotChangeGetAll ==
    [][(step'.op \in CallerSteps /\ step'.from = "get_history")
         => Fields(objects', lists'[live']) = Fields(objects, lists[live])]_vars

\* C13: a record that calculate appended keeps the value of every field for
\* as long as it is in the live history.
C13_RecordsNeverChange ==
    [][\A r \in Elements(live) :
         (MadeByCalculate(r) /\ r \in { lists'[live'][i] : i \in 1..Len(lists'[live']) })
           => objects'[r] = objects[r]]_vars

(***************************************************************************)
(* Observers and persistence.                                              *)
(***************************************************************************)
\* the errors calculate raises before it makes a record
CalculateErrors == {"ValidationError", "OperationError"}

\* the step is a calculate call whose operation succeeded
Calculated == lastOp' = "calculate" /\ ret'.exc \notin CalculateErrors

\* C14: when an observer whose update raises is registered, a calculate whose
\* operation succeeds still calls update of every registered observer, those
\* after the raising one included, each with the new record; it returns the
\* result and raises nothing; and the record is the last of the history,
\* with the history before the call as the top undo snapshot.
C14_RaisingObserverIsIsolated ==
    [][(Calculated /\ In(FailingObserver, observers)) =>
         /\ ret'.exc = "none"
         /\ history' # <<>>
         /\ ret'.val = Last(history').result
         /\ Len(notified') = Len(observers)
         /\ \A i \in 1..Len(observers) :
               /\ notified'[i].observer = observers[i]
               /\ notified'[i].calculation = Last(history')
         /\ undo_stack' # <<>>
         /\ MementoGetHistory(Last(undo_stack')) = history]_vars

C14_NotifiedAfterRaisingObserver ==
    /\ Acted("calculate")
    /\ \E i \in 1..Len(notified) :
          /\ notified[i].observer = FailingObserver
          /\ \E j \in (i + 1)..Len(notified) : notified[j].observer = QuietObserver

\* the calls of update that a calculate made on observer o
UpdatesOf(o, calls) == { i \in 1..Len(calls) : calls[i].observer = o }

\* what the calculator showed when update call n ran: the history ends with
\* the new record and the top undo snapshot is the history before the call
SeenAfterAppend(n, before) ==
    /\ n.history # <<>>
    /\ Last(n.history) = n.calculation
    /\ n.undo_stack # <<>>
    /\ MementoGetHistory(Last(n.undo_stack)) = before

Store == files[config.CALCULATOR_HISTORY_FILE]

\* C17: with auto-save enabled (the configuration asks for it and the
\* AutoSaveObserver it registered is still registered) and a history file
\* that can be written, after every successful calculate the file has one row
\* per record of the live history as it is after the append, in the same
\* order, each row the fields of its record.
C17_AutoSaveStoresLiveHistory ==
    [][(/\ Calculated
        /\ config.CALCULATOR_AUTO_SAVE
        /\ In("AutoSaveObserver", observers)
        /\ Writable(config.CALCULATOR_HISTORY_FILE)) =>
         /\ Store'.exists
         /\ Store'.columns = RequiredColumns
         /\ Len(Store'.rows) = Len(history')
         /\ \A i \in 1..Len(history') : Store'.rows[i] = ToDict(history'[i])
         /\ ParseRows(Store'.rows) = history']_vars

C17_SavedAfterEviction ==
    /\ Acted("calculate")
    /\ In("AutoSaveObserver", observers)
    /\ Len(pre.history) = max_size
    /\ Len(pre.files[config.CALCULATOR_HISTORY_FILE].rows) = max_size
    /\ Len(Store.rows) = max_size
    /\ ParseRows(Store.rows) = history
    /\ history # pre.history

\* a file that read_csv reads but that lacks a required column
LacksColumns(file) ==
    file.exists /\ file.columns # {} /\ ~(RequiredColumns \subseteq file.columns)

AnyPaths == {"None"} \cup Paths

\* the history and both stacks are as before the step
StateKept ==
    /\ history' = history
    /\ undo_stack' = undo_stack
    /\ redo_stack' = redo_stack

HasHeader(file) == file.exists /\ file.columns # {}

\* the records of the rows that from_dict accepts, in file order
RowsThatParse(rows) ==
    LET kept == SelectSeq(rows, LAMBDA row : FromDict(row).exc = "none")
    IN  [i \in 1..Len(kept) |-> FromDict(kept[i]).val]

Blank(text) == \A i \in 1..Len(text) : text[i] \in Whitespace

\* name is text in lower case: the same length, letter for letter
IsLowerOf(name, text) ==
    /\ Len(name) = Len(text)
    /\ \A i \in 1..Len(text) : name[i] = ToLowerChar(text[i])

\* name is text without the white space around it, in lower case
IsNormalOf(name, text) ==
    \E i, j \in 1..Len(text) :
        /\ i <= j
        /\ text[i] \notin Whitespace /\ text[j] \notin Whitespace
        /\ Blank(SubSeq(text, 1, i - 1)) /\ Blank(SubSeq(text, j + 1, Len(text)))
        /\ IsLowerOf(name, SubSeq(text, i, j))

\* C23: validate_operation raises ValidationError for a name that is not a
\* str or is empty or blank, and otherwise returns the name without the
\* white space around it and in lower case; create finds an operation
\* exactly for the texts that are a registry name in some mix of cases, and
\* it is the operation of that name; and calculate with a registry name in
\* any case and between any white space, on operands the operation accepts,
\* succeeds and records the registry name.
C23_NamesAreNormalized ==
    [][/\ probe'.fn = "validate_operation" =>
            LET operation == probe'.args[1]
            IN  IF ~operation.isStr \/ Blank(operation.chars)
                THEN probe'.out.exc = "ValidationError"
                ELSE /\ probe'.out.exc = "none"
                     /\ IsNormalOf(probe'.out.val, operation.chars)
       /\ probe'.fn = "create" =>
            LET text == probe'.args[1]
            IN  /\ probe'.out.exc = "none" <=>
                       \E name \in GetAvailableOperations : IsLowerOf(name, text)
                /\ probe'.out.exc = "none" => IsLowerOf(GetSymbol(probe'.out.val), text)
                /\ probe'.out.exc # "none" => probe'.out.exc = "OperationError"
       /\ (/\ probe'.fn = "calculate" /\ probe = NoProbe
           /\ probe'.args[2] = FloatValue(2) /\ probe'.args[3] = FloatValue(1)
           /\ probe'.args[1].isStr) =>
            \A name \in GetAvailableOperations :
                IsNormalOf(name, probe'.args[1].chars) =>
                    /\ lastOp' = "calculate"
                    /\ ret'.exc = "none"
                    /\ history' # <<>>
                    /\ Last(history').operation = name]_vars

C23_RecordedInLowerCase ==
    /\ probe.fn = "calculate"
    /\ probe.args[1] = StrName(<<" ", "I", "N", "T", "_", "D", "I", "V", "I", "D", "E", "\n">>)
    /\ lastOp = "calculate" /\ ret.exc = "none"
    /\ history # <<>>
    /\ Last(history).operation = <<"i", "n", "t", "_", "d", "i", "v", "i", "d", "e">>

\* the ten names the specification lists
BuiltInNames ==
    { <<"a", "d", "d">>, <<"s", "u", "b", "t", "r", "a", "c", "t">>,
      <<"m", "u", "l", "t", "i", "p", "l", "y">>, <<"d", "i", "v", "i", "d", "e">>,
      <<"p", "o", "w", "e", "r">>, <<"r", "o", "o", "t">>,
      <<"m", "o", "d", "u", "l", "u", "s">>,
      <<"i", "n", "t", "_", "d", "i", "v", "i", "d", "e">>,
      <<"p", "e", "r", "c", "e", "n", "t">>, <<"a", "b", "s", "_", "d", "i", "f", "f">> }

\* the names of the records of a history
NamesIn(h) == { h[i].operation : i \in 1..Len(h) }

\* C24: the registry binds exactly the ten names add, subtract, multiply,
\* divide, power, root, modulus, int_divide, percent and abs_diff, each to
\* one operation whose get_symbol is the name; whatever the calculator has
\* done before, create with a text that is none of the ten names in any
\* mix of cases raises OperationError and with one of them returns the
\* operation of that name; and every record of the live history and of
\* the snapshots carries one of the ten names.
C24_RegistryIsTheTenBuiltIns ==
    /\ GetAvailableOperations = BuiltInNames
    /\ Cardinality(Operations) = 10
    /\ \A entry \in Operations : GetSymbol(entry[2]) = entry[1]
    /\ NamesIn(history) \subseteq BuiltInNames
    /\ \A i \in 1..Len(undo_stack) : NamesIn(undo_stack[i]._history) \subseteq BuiltInNames
    /\ \A i \in 1..Len(redo_stack) : NamesIn(redo_stack[i]._history) \subseteq BuiltInNames
    /\ probe.fn = "create" =>
            IF \E name \in BuiltInNames : IsLowerOf(name, probe.args[1])
            THEN /\ probe.out.exc = "none"
                 /\ IsLowerOf(GetSymbol(probe.out.val), probe.args[1])
            ELSE probe.out.exc = "OperationError"
    /\ (probe.fn = "calculate" /\ lastOp = "calculate" /\ ret.exc = "none") =>
            /\ history # <<>>
            /\ probe.args[1].isStr
            /\ IsNormalOf(Last(history).operation, probe.args[1].chars)

C24_UnknownNameAfterCalculation ==
    /\ history # <<>>
    /\ probe.fn = "create"
    /\ probe.args[1] = <<"S", "Q", "R", "T">>
    /\ probe.out.exc = "OperationError"

\* value is a number beyond the largest allowed, on either side of zero
BeyondLimit(value) ==
    /\ value.parses
    /\ \/ value.num.n > MaxInputValue * value.num.d
       \/ 0 - value.num.n > MaxInputValue * value.num.d

\* validate_number accepts value
Accepted(value) == value.parses /\ ~BeyondLimit(value)

C30_ChecksInFixedOrder ==
    (probe.fn = "calculate" /\ lastOp = "calculate") =>
        LET name    == probe.args[1]
            badName == ~name.isStr \/ Blank(name.chars)
            numbers == Accepted(probe.args[2]) /\ Accepted(probe.args[3])
            known   == \E n \in BuiltInNames : IsNormalOf(n, name.chars)
        IN  /\ badName =>
                    /\ ret.exc = "ValidationError"
                    /\ probe.out.msg = "Operation name cannot be empty"
            /\ (~badName /\ ~numbers) =>
                    /\ ret.exc = "ValidationError"
                    /\ probe.out.msg \in {"Invalid number", "Number exceeds maximum allowed value"}
            /\ (~badName /\ numbers /\ ~known) =>
                    /\ ret.exc = "OperationError"
                    /\ probe.out.msg = "Unknown operation"
            /\ (~badName /\ numbers /\ known) =>
                    /\ ret.exc \in {"none", "OperationError"}
                    /\ probe.out.msg # "Unknown operation"
            /\ ret.exc # "none" => history = pre.history

C30_OperandsCheckedBeforeLookup ==
    /\ probe.fn = "calculate"
    /\ probe.args = <<StrName(Sqrt), StrWord, FloatValue(1)>>
    /\ lastOp = "calculate"
    /\ ret.exc = "ValidationError"

(***************************************************************************)
(* The operations.                                                         *)
(***************************************************************************)
\* execute of the operation cls has been called
Executed(cls) == probe.fn = "execute" /\ probe.args[1] = cls

\* root is the float nearest below the k-th root of x on the decimal grid,
\* or the k-th root itself
IsKthRoot(root, x, k) ==
    /\ ~RLess(root, Num(0))
    /\ \/ RPowNat(root, k) = x
       \/ /\ RLess(RPowNat(root, k), x)
          /\ RLess(x, RPowNat(RAdd(root, Rat(1, Grid)), k))

\* C25: root(a, b) raises 'Root degree cannot be zero' when b is 0 and a is
\* not negative; it raises 'Cannot compute even root of negative number'
\* when a is negative and b is an even integer, 0 included; and for a
\* negative a and an odd integer b it returns a negative number, minus the
\* |b|-th root of -a for a positive b and minus its inverse for a negative b.
C25_RootOfNegativeAndZeroDegree ==
    Executed("RootOperation") =>
        LET a == probe.args[2]
            b == probe.args[3]
        IN  /\ (b.n = 0 /\ a.n >= 0) =>
                    /\ probe.out.exc = "OperationError"
                    /\ probe.out.msg = "Root degree cannot be zero"
            /\ (a.n < 0 /\ b.d = 1 /\ b.n % 2 = 0) =>
                    /\ probe.out.exc = "OperationError"
                    /\ probe.out.msg = "Cannot compute even root of negative number"
            /\ (a.n < 0 /\ b.d = 1 /\ b.n % 2 = 1) =>
                    /\ probe.out.exc = "none"
                    /\ probe.out.val.n < 0
                    /\ IF b.n > 0
                       THEN IsKthRoot(RNeg(probe.out.val), RNeg(a), b.n)
                       ELSE IsKthRoot(RDiv(Num(1), RNeg(probe.out.val)), RNeg(a), 0 - b.n)

C25_CubeRootOfMinusEight ==
    /\ Executed("RootOperation")
    /\ probe.args[2] = Num(0 - 8) /\ probe.args[3] = Num(3)
    /\ probe.out.exc = "none"
    /\ probe.out.val = Num(0 - 2)

\* C25 as stated: root(a, 0) raises 'Root degree cannot be zero' for every a
C25_ZeroDegreeNamedForEveryNumber ==
    (Executed("RootOperation") /\ probe.args[3].n = 0) =>
        /\ probe.out.exc = "OperationError"
        /\ probe.out.msg = "Root degree cannot be zero"

\* C26: for integers a and b with b not 0, int_divide(a, b) is the integer
\* q with q*b <= a < (q+1)*b for a positive b and q*b >= a > (q+1)*b for a
\* negative b, that is the floor of a/b; modulus(a, b) is 0 or has the
\* sign of b and is smaller than b in absolute value; and a is
\* b * int_divide(a, b) + modulus(a, b).
C26_FlooredDivisionAndRemainder ==
    (/\ probe.fn = "execute"
     /\ probe.args[2].d = 1 /\ probe.args[3].d = 1 /\ probe.args[3].n # 0) =>
        LET a == probe.args[2].n
            b == probe.args[3].n
            q == probe.out.val
            m == probe.out.val
        IN  /\ Executed("IntDivideOperation") =>
                    /\ probe.out.exc = "none"
                    /\ q.d = 1
                    /\ IF b > 0 THEN q.n * b <= a /\ a < (q.n + 1) * b
                                ELSE q.n * b >= a /\ a > (q.n + 1) * b
                    /\ Num(a) = RAdd(RMul(Num(b), q),
                                     Execute("ModulusOperation", Num(a), Num(b)).val)
            /\ Executed("ModulusOperation") =>
                    /\ probe.out.exc = "none"
                    /\ m.d = 1
                    /\ m.n = 0 \/ (m.n > 0 <=> b > 0)
                    /\ Abs(m.n) < Abs(b)
                    /\ Num(a) = RAdd(RMul(Num(b),
                                          Execute("IntDivideOperation", Num(a), Num(b)).val), m)

C26_NegativeDividendPositiveDivisor ==
    /\ Executed("IntDivideOperation")
    /\ probe.args[2] = Num(0 - 7) /\ probe.args[3] = Num(2)
    /\ probe.out.val = Num(0 - 4)
    /\ Execute("ModulusOperation", Num(0 - 7), Num(2)).val = Num(1)

(***************************************************************************)
(* The logger.                                                             *)
(***************************************************************************)
\* the last call was get_logger
GotLogger ==
    /\ logger.calls # <<>>
    /\ Last(logger.calls) = "get_logger"

\* setup has returned and _logger has not been assigned None since
SetUpSinceReset ==
    \E i \in 1..Len(logger.calls) :
        /\ logger.calls[i] = "setup"
        /\ \A j \in (i + 1)..Len(logger.calls) : logger.calls[j] # "reset"

\* C28: get_logger raises RuntimeError as long as setup has not been
\* called, and once a call of setup has returned, with no reset after it,
\* get_logger returns the logger, whatever calls of setup and resets came
\* before that call of setup.
C28_GetLoggerAfterSetup ==
    GotLogger =>
        /\ (\A i \in 1..Len(logger.calls) : logger.calls[i] # "setup") =>
                logger.exc = "RuntimeError"
        /\ SetUpSinceReset => logger.exc = "none" /\ logger.val = "logger"

(***************************************************************************)
(* The redo stack and the live history.                                    *)
(***************************************************************************)
\* C29: every operation other than undo and redo that changes the live
\* history leaves the redo stack empty, so that whenever can_redo() is true
\* the live history is the one the last undo or redo installed.
C29_RedoOnlyAlongTheUndoChain ==
    [][(history' # history /\ lastOp' \notin {"undo", "redo"}) =>
            ~CanRedo(redo_stack')]_vars

(***************************************************************************)
(* What the operations other than calculate leave alone.                   *)
(***************************************************************************)
\* the step is a call that is no successful calculate
NotASuccessfulCalculate == lastOp' # "calculate" \/ ret'.exc # "none"

C34_LoadAndSaveKeepTheStacks ==
    [][/\ lastOp' \in {"load_history", "save_history"} =>
            undo_stack' = undo_stack /\ redo_stack' = redo_stack
       /\ lastOp' = "save_history" => history' = history
       /\ (lastOp = "load_history" /\ lastOp' = "undo" /\ ret'.val = TRUE) =>
            /\ pre.undo_stack = undo_stack
            /\ history' = MementoGetHistory(Last(pre.undo_stack))
            /\ undo_stack' = Front(pre.undo_stack)]_vars

C34_UndoAfterLoadSkippedTheOldHistory ==
    /\ lastOp = "undo" /\ ret.val = TRUE
    /\ pre.history # <<>>
    /\ pre.history[1].timestamp < 0
    /\ history = <<>>
    /\ Len(pre.undo_stack) = 1
    /\ MementoGetHistory(Last(redo_stack)) = pre.history

(***************************************************************************)
(* The depths of the two stacks.                                           *)
(***************************************************************************)
\* the step is a call of op that returned True
Succeeded(op) == lastOp' = op /\ ret'.val = TRUE

\* C35: a successful undo takes one snapshot off the undo stack and puts
\* one on the redo stack, a successful redo does the reverse, so neither
\* changes the sum of the two depths; a successful calculate and every
\* clear_history put one snapshot on the undo stack and empty the redo
\* stack; and after N successful calculate calls and nothing else the undo
\* stack holds N snapshots, beyond max_size as well.
C35_StackDepthAccounting ==
    [][/\ Succeeded("undo") =>
            /\ Len(undo_stack') = Len(undo_stack) - 1
            /\ Len(redo_stack') = Len(redo_stack) + 1
       /\ Succeeded("redo") =>
            /\ Len(undo_stack') = Len(undo_stack) + 1
            /\ Len(redo_stack') = Len(redo_stack) - 1
       /\ lastOp' \in {"undo", "redo"} =>
            Len(undo_stack') + Len(redo_stack') = Len(undo_stack) + Len(redo_stack)
       /\ (lastOp' = "clear_history" \/ (lastOp' = "calculate" /\ ret'.exc = "none")) =>
            /\ Len(undo_stack') = Len(undo_stack) + 1
            /\ Len(redo_stack') = 0
       /\ run'.phase = "calc" => Len(undo_stack') = Len(run'.made)]_vars

C35_DeeperThanTheCapacity ==
    /\ run.phase = "calc"
    /\ Len(run.made) = 3
    /\ Len(undo_stack) = 3
    /\ max_size = 1
    /\ Len(history) = 1

(***************************************************************************)
(* undo and redo as inverses.                                              *)
(***************************************************************************)
\* the live history and both stacks are what they were two calls ago
BackToBeforeThePair ==
    /\ history' = pre.history
    /\ undo_stack' = pre.undo_stack
    /\ redo_stack' = pre.redo_stack

\* C36: a successful redo followed by undo leaves the live history and
\* both stacks equal, record by record and in order, to what they were
\* before the redo; a successful undo followed by redo leaves both stacks
\* (and the live history) equal to what they were before the undo.
C36_UndoAndRedoAreInverses ==
    [][/\ (lastOp = "redo" /\ ret.val = TRUE /\ lastOp' = "undo") =>
            ret'.val = TRUE /\ BackToBeforeThePair
       /\ (lastOp = "undo" /\ ret.val = TRUE /\ lastOp' = "redo") =>
            ret'.val = TRUE /\ BackToBeforeThePair]_vars

C36_RedoneWithAnUndoToCome ==
    /\ lastOp = "redo" /\ ret.val = TRUE
    /\ left > 0
    /\ CanUndo(undo_stack)
    /\ history # <<>>
    /\ CaretakerUndo(undo_stack, redo_stack, GetAll(history)).redo = pre.redo_stack

(***************************************************************************)
(* undo called until it returns False.                                     *)
(***************************************************************************)
\* C37: in a session of calculate, clear_history, undo and redo, calling
\* undo repeatedly always terminates: it returns True exactly as many times
\* as the undo stack was deep when the repetition began, then returns
\* False, and the live history is then the empty initial history.  While
\* no call has returned False the next call can be made, the calls that
\* returned True and the snapshots still on the stack add up to the depth
\* at the start, so the call after that many returns False.
C37_RepeatedUndoDrains ==
    /\ Repeating =>
          /\ probe.args[2] + Len(undo_stack) = probe.args[1]
          /\ probe.args[2] + probe.args[3] <= probe.args[1] + 1
          /\ ret.val = (probe.args[3] = 0)
    /\ (Repeating /\ ~Drained) => ENABLED RepeatedUndo
    /\ Drained =>
          /\ lastOp = "undo"
          /\ probe.args[2] = probe.args[1]
          /\ undo_stack = <<>>
          /\ history = <<>>

C37_DrainedFromThreeDeep ==
    /\ Drained
    /\ probe.args[1] = 3
    /\ probe.args[2] = 3
    /\ Len(redo_stack) = 3

(***************************************************************************)
(* clear_history on a history that is empty.                               *)
(***************************************************************************)
\* C38: clear_history always pushes exactly one snapshot, of the history it
\* found, also when that history is empty; after clear_history on an empty
\* history can_undo() is true, and an undo called next returns True and
\* leaves the live history empty.
C38_ClearAlwaysPushesOne ==
    [][/\ lastOp' = "clear_history" =>
            /\ undo_stack' = Append(undo_stack, Memento(GetAll(history)))
            /\ CanUndo(undo_stack')
            /\ history' = <<>>
       /\ (lastOp = "clear_history" /\ pre.history = <<>> /\ lastOp' = "undo") =>
            /\ ret'.val = TRUE
            /\ history' = <<>>
            /\ undo_stack' = pre.undo_stack]_vars

C38_ClearedAnEmptyHistory ==
    /\ lastOp = "clear_history"
    /\ pre.history = <<>>
    /\ pre.undo_stack = <<>>
    /\ Len(undo_stack) = 1
    /\ history = <<>>
    /\ left > 0

(***************************************************************************)
(* The notification round while observers register and remove observers.  *)
(***************************************************************************)
\* C39: each observer that is registered when a successful calculate starts
\* its notification round has been notified exactly once when the round is
\* over and calculate returns (once for each time it is registered), also
\* when the update of an observer calls register_observer or
\* remove_observer on the same calculator during the round.
C39_EachNotifiedOnceInTheRound ==
    (frames = <<>> /\ lastOp = "calculate" /\ ret.exc = "none") =>
        \A o \in RoundObservers :
            In(o, pre.observers) =>
                Cardinality(UpdatesOf(o, notified)) = Times(o, pre.observers)

(***************************************************************************)
(* calculate called from two threads.                                      *)
(***************************************************************************)
\* the top snapshot is the history that the last append found
TopPrecedesLastAppend ==
    /\ undo_stack # <<>>
    /\ MementoGetHistory(Last(undo_stack)) = BeforeLastAppend

\* C31: calculate is atomic only under serialized use.  When the calls are
\* serialized behind one mutex, whenever a calculate has returned and no
\* call is in progress the top undo snapshot is the history that
\* immediately preceded the last append, and undo() called then puts
\* exactly that history back, removing the one calculation appended last.
\* (Without the mutex the calls interleave between the read of the copy,
\* save_state, the append and the notification, and the state
\* C31_UndoRemovedTwo, where undo took two calculations away, is reached.)
C31_SerializedCallsAreAtomic ==
    (frames # <<>> /\ frames[1].mutex /\ Quiescent /\ Appends > 0
        /\ lastOp = "calculate") =>
      /\ TopPrecedesLastAppend
      /\ CaretakerUndo(undo_stack, redo_stack, GetAll(history)).history = BeforeLastAppend
      /\ history = HistoryAdd(BeforeLastAppend, Last(history), max_size)

C31_UndoRemovedTwo ==
    /\ frames # <<>>
    /\ ~frames[1].mutex
    /\ lastOp = "undo" /\ ret.val = TRUE
    /\ Len(pre.undo_stack) = Appends
    /\ Len(pre.history) = 2
    /\ history = <<>>
    /\ history # BeforeLastAppend

(***************************************************************************)
(* The REPL loop.                                                          *)
(***************************************************************************)
\* the first word of what was read, in lower case, when there is one
FirstWordIn(read, words) ==
    /\ read.raised = "none"
    /\ Split(Strip(read.line)) # <<>>
    /\ Lower(Split(Strip(read.line))[1]) \in words

\* what was read is exit or quit in some letter case, or the end of input
StopsTheLoop(read) ==
    \/ read.raised = "EOFError"
    \/ FirstWordIn(read, {<<"e", "x", "i", "t">>, <<"q", "u", "i", "t">>})

\* what was read is a calculation command with fewer than two operands
FewOperands(read) ==
    /\ FirstWordIn(read, GetAvailableOperations)
    /\ Len(Split(Strip(read.line))) < 3

====
